---- MODULE Spec2Model ----
(***************************************************************************)
(* Model of the batching, fallback and fan-out logic of                    *)
(* src/src/financial-api.js (openpharma-org/financials-mcp).               *)
(*                                                                         *)
(* One JavaScript turn (the code between two awaits) is one action: the    *)
(* synchronous part of a call, the continuation of one worker after its    *)
(* response arrived, the continuation after Promise.all, a timer callback. *)
(***************************************************************************)
EXTENDS Integers, Sequences, FiniteSets, TLC

VARIABLES
    op,          \* top-level operation in progress: "idle", "economic", ...
    pc,          \* position of the top-level flow of control
    now,         \* wall clock, in units of 500 ms
    timerDue,    \* time at which the armed inter-batch timer may fire
    i,           \* loop variable of extractEconomicData (0, 5, 10, ...)
    status,      \* status[k]: state of the worker of indicator k
    results,     \* the shared `results` object of extractEconomicData
    retval,      \* what the top-level call returned
    rows,        \* the rows fetchEconomicIndicators returned, by key
    batches,     \* history: the batches issued so far, in order
    delays,      \* history: number of inter-batch delays taken
    fredOutcome, \* history: what the FRED request of indicator k got
    yahooOutcome,\* history: what the Yahoo request of indicator k got
    fredCount,   \* history: FRED requests issued per indicator
    yahooCount,  \* history: Yahoo fallback requests issued per indicator
    issuedAt,    \* history: time at which the latest batch was issued
    settledAt,   \* history: time at which a worker last settled
    slack,       \* clock ticks this run may still spend awaiting responses
    misses,      \* number of indicators whose FRED request gave no value
    budget,      \* how many such indicators this run may have
    callsLeft,   \* how many more top-level calls this run may make
    fredIssued,  \* history: FRED requests issued since time 0
    sPrimary,    \* fetchFredSeriesSearch: state of the sitesearch request
    sFallback,   \* fetchFredSeriesSearch: state of the standard-API request
    apiKey,      \* process.env.FRED_API_KEY as seen by the running call
    limit,       \* the `limit` argument of the running call
    items,       \* number of entries the list request returned
    wstatus,     \* wstatus[j]: state of the j-th per-item worker
    wresult,     \* wresult[j]: what the j-th per-item worker resolved to
    wdate,       \* wdate[j]: the vintageDate of the j-th entry (0: none)
    input,       \* the argument the running call was given
    httpCount,   \* network requests the running call has issued so far
    fetched,     \* history: whether the call entered a fetch* function
    symbols,     \* the `symbols` array given to fetchStockCorrelation
    cursor,      \* position of the `for (const symbol of symbols)` loop
    priceData,   \* keys of the `priceData` object
    text,        \* the formatted string handed to the decoders
    decoded,     \* what each decoder made of `text`
    observations,\* the observation values of a FRED response, latest first
    obsRows,     \* the row value made of each observation, by position
    vintages,    \* the vintage list handed to analyzeRevisions
    analysis,    \* what analyzeRevisions returned
    extracted,   \* history: the fields the extraction read from the page
    snapshot,    \* what the extract* function returned
    row,         \* the row the fetch* function returned, by field
    pagesLeft,   \* pages a multi-page extraction has still to request
    entries,     \* entries a multi-page extraction has stored
    blankEntries,\* stored entries that carry no field read from a page
    pageArrived, \* history: whether a requested page arrived
    field,       \* the summary field being extracted
    element,     \* the page's fin-streamer element of that field
    fragment,    \* the page's escaped-JSON fragment of that field
    summaryField,\* what extractSummaryData left in summaryData[field]
    rowField,    \* the row value toStockSummaryRow made of it
    converter,   \* the list converter whose column is followed
    metric,      \* the metric of that column
    rawText,     \* the number the page carries for the metric
    metricValue, \* what the pattern loop left in metrics[metric]
    metricRow,   \* the column the converter made of it
    target,      \* the symbol given to fetchStockPeers
    peerList,    \* the `peers` list extractPeerData returned
    peerIndex,   \* position of the `for (const peer of peers)` loop
    requested,   \* history: the peers whose page was requested, in order
    peerData,    \* the entries of fetchPeerMetrics' peerData, in order
    peerRows     \* the rows toPeerComparisonRows returned

searchVars == <<sPrimary, sFallback>>
fanVars == <<apiKey, limit, items, wstatus, wresult, wdate>>
callVars == <<input, httpCount, fetched, symbols, cursor, priceData>>
pureVars == <<text, decoded, observations, obsRows, vintages, analysis>>
pageVars ==
    <<extracted, snapshot, row, pagesLeft, entries, blankEntries, pageArrived>>
summaryVars == <<field, element, fragment, summaryField, rowField>>
metricVars == <<converter, metric, rawText, metricValue, metricRow>>
peerVars == <<target, peerList, peerIndex, requested, peerData, peerRows>>
restVars == <<summaryVars, metricVars, peerVars>>
laterVars == <<callVars, pureVars, pageVars, restVars>>

vars == <<op, pc, now, timerDue, i, status, results, retval, rows, batches,
          delays, fredOutcome, yahooOutcome, fredCount, yahooCount, issuedAt, settledAt, slack,
          misses, budget, callsLeft, fredIssued, searchVars, fanVars, laterVars>>

----------------------------------------------------------------------------
(* Bounds of the model *)

\* indicators per call whose FRED request may fail or carry no valid
\* observation
MaxMisses == 1
\* clock ticks a timed run may spend awaiting responses
MaxLatency == 1
\* consecutive calls of fetchEconomicIndicators in a rate run
MaxCalls == 4
\* entries in one modelled list response (search hits, categories,
\* vintage dates, geographic series)
MaxItems == 6
\* characters in the `symbol` string given to the tool handler
MaxChars == 3
\* entries of a `symbols` array given to fetchStockCorrelation directly
MaxSymbols == 3
\* digits in the numeral of a formatted string handed to the decoders
MaxDigits == 2
\* field signatures of a page that the model tells apart
MaxFields == 6
\* observations in a FRED response
MaxObs == 3
\* vintage records handed to analyzeRevisions
MaxVintages == 3

Workers == 1..MaxItems

----------------------------------------------------------------------------
(* extractEconomicData: the indicator table and its constants *)

\* Object.entries(indicators): [key, seriesId] in table order
indicatorEntries ==
    << <<"gdp", "GDP">>, <<"realGdp", "GDPC1">>,
       <<"gdpGrowth", "A191RL1Q225SBEA">>,
       <<"unemployment", "UNRATE">>, <<"employment", "PAYEMS">>,
       <<"laborForce", "CIVPART">>, <<"jobsOpenings", "JTSJOL">>,
       <<"inflation", "CPIAUCSL">>, <<"coreCpi", "CPILFESL">>,
       <<"pce", "PCEPI">>, <<"corePce", "PCEPILFE">>,
       <<"producerPrices", "PPIACO">>,
       <<"federalFunds", "FEDFUNDS">>,
       <<"treasury1m", "DGS1MO">>, <<"treasury3m", "DGS3MO">>,
       <<"treasury6m", "DGS6MO">>, <<"treasury1y", "DGS1">>,
       <<"treasury2y", "DGS2">>, <<"treasury5y", "DGS5">>,
       <<"treasury10y", "DGS10">>, <<"treasury30y", "DGS30">>,
       <<"m1Money", "M1SL">>, <<"m2Money", "M2SL">>,
       <<"retailSales", "RSAFS">>, <<"consumerSentiment", "UMCSENT">>,
       <<"industrialProduction", "INDPRO">>,
       <<"housingStarts", "HOUST">>, <<"newHomeSales", "HSN1F">>,
       <<"existingHomeSales", "EXHOSLUSM495S">>,
       <<"vix", "VIXCLS">>, <<"sp500", "SP500">>,
       <<"tradeBalance", "BOPGSTB">>,
       <<"federalDebt", "GFDEBTN">>, <<"debtToGdp", "GFDEGDQ188S">> >>

NumIndicators == Len(indicatorEntries)
Keys == 1..NumIndicators

KeyOf(k) == indicatorEntries[k][1]
SeriesIdOf(k) == indicatorEntries[k][2]

maxConcurrent == 5

\* `delay = 500` ms, the unit of the clock
delay == 1

\* the keys of the inline symbolMap
symbolMap ==
    [key \in {"treasury1m", "treasury3m", "treasury6m", "treasury1y",
              "treasury2y", "treasury5y", "treasury10y", "treasury30y"} |->
        CASE key \in {"treasury1m", "treasury3m", "treasury6m"} -> "^IRX"
          [] key \in {"treasury1y", "treasury2y", "treasury5y",
                      "treasury10y"} -> "^TNX"
          [] key = "treasury30y" -> "^TYX"]

\* a fallback branch without the key test
IncludesAnything(k) == TRUE

\* key.includes('treasury'): the keys of the table that contain the word
IncludesTreasury(k) ==
    KeyOf(k) \in {"treasury1m", "treasury3m", "treasury6m", "treasury1y",
                  "treasury2y", "treasury5y", "treasury10y", "treasury30y"}

\* symbolMap[key] || '^TNX'
FallbackSymbol(k) ==
    IF KeyOf(k) \in DOMAIN symbolMap THEN symbolMap[KeyOf(k)] ELSE "^TNX"

----------------------------------------------------------------------------
(* Wire shapes *)

NULL == "null"
Placeholder == "."
Undefined == "undefined"

\* JavaScript values that reach a row: a number, NaN or undefined
Num(n) == [type |-> "number", n |-> n]
NaN == [type |-> "NaN", n |-> 0]
UndefinedValue == [type |-> "undefined", n |-> 0]
\* the string 'N/A' in a value position
NotAvailable == [type |-> "N/A", n |-> 0]

\* what a top-level call handed back: kind says whether it returned or
\* threw, n counts the keys or rows returned
Return(kind, n, endpoint) == [kind |-> kind, n |-> n, endpoint |-> endpoint]
NoReturn == Return("none", 0, "none")

\* numeric texts as the sources send them
NumericStrings == {"3", "4"}

\* parseFloat: the number a numeric text denotes, NaN for any other text
parseFloat(s) ==
    CASE s = "3" -> Num(3)
      [] s = "4" -> Num(4)
      [] OTHER -> NaN

\* the observation lists of the modelled FRED responses: no observation,
\* only a placeholder or a null, a valid observation, and a valid
\* observation behind a placeholder
ObsLists == {<<>>, <<Placeholder>>, <<NULL>>, <<"3">>, <<Placeholder, "3">>}

\* outcome of axios.get on the FRED observations endpoint: a throw
\* (transport error, timeout, non-2xx) or a body with an observation list
FredResponses ==
    {[kind |-> "error", observations |-> <<>>]} \cup
    {[kind |-> "ok", observations |-> obs] : obs \in ObsLists}

\* outcome of axios.get on the Yahoo quote page: a throw, a page without
\* the regularMarketPrice fragment, or a page whose fragment carries raw
YahooResponses ==
    {[kind |-> "error", raw |-> NULL], [kind |-> "nomatch", raw |-> NULL]} \cup
    {[kind |-> "price", raw |-> t] : t \in NumericStrings}

\* observations.find(obs => obs.value !== '.' && obs.value !== null)
RECURSIVE Find(_)
Find(obs) ==
    IF obs = <<>> THEN Undefined
    ELSE IF Head(obs) # Placeholder /\ Head(obs) # NULL THEN Head(obs)
    ELSE Find(Tail(obs))

NoValue == [value |-> UndefinedValue, seriesId |-> Undefined, source |-> Undefined]

\* no row for a key
NoRow == [indicator |-> Undefined, value |-> UndefinedValue,
          series_id |-> Undefined, source |-> Undefined]

\* the object stored at results[key] from a FRED observation
FredEntry(k, latestObs) ==
    [value |-> parseFloat(latestObs), seriesId |-> SeriesIdOf(k),
     source |-> Undefined]

\* the object stored at results[key] from the Yahoo price match
YahooEntry(k, raw) ==
    [value |-> parseFloat(raw), seriesId |-> FallbackSymbol(k),
     source |-> "yahoo_finance"]

----------------------------------------------------------------------------
(* extractEconomicData: the batch loop *)

Min(a, b) == IF a < b THEN a ELSE b

\* a slice whose end is one short: the last entry of each group is skipped
BatchShort(idx) == (idx + 1)..Min(idx + maxConcurrent - 1, NumIndicators)

\* indicatorEntries.slice(idx, idx + maxConcurrent), as table positions
Batch(idx) == (idx + 1)..Min(idx + maxConcurrent, NumIndicators)

\* i + maxConcurrent < indicatorEntries.length
DelayNeeded(idx) == idx + maxConcurrent < NumIndicators

\* Promise.race in place of Promise.all: the first fulfilled promise
\* lets the loop go on
AnySettled(idx) == \E k \in Batch(idx) : status[k] = "settled"

\* every promise of batchPromises is fulfilled
AllSettled(idx) == \A k \in Batch(idx) : status[k] = "settled"

\* batch.map(async ...): every worker runs up to its first await, which
\* issues its FRED request
IssueBatch(idx) ==
    /\ status' = [k \in Keys |-> IF k \in Batch(idx) THEN "fred" ELSE status[k]]
    /\ fredCount' = [k \in Keys |->
                       IF k \in Batch(idx) THEN fredCount[k] + 1 ELSE fredCount[k]]
    /\ issuedAt' = now
    /\ fredIssued' = fredIssued + Cardinality(Batch(idx))
    /\ batches' = Append(batches, Batch(idx))

Fresh(f) == [k \in Keys |-> f]

\* a call of fetchEconomicIndicators -> extractEconomicData: set-up and
\* the first batch
ExtractEconomicData ==
    /\ pc \in {"idle", "done"}
    /\ callsLeft > 0
    /\ callsLeft' = callsLeft - 1
    /\ op' = "economic"
    /\ pc' = "await"
    /\ i' = 0
    /\ results' = Fresh(NoValue)
    /\ rows' = Fresh(NoRow)
    /\ retval' = NoReturn
    /\ delays' = 0
    /\ misses' = 0
    /\ timerDue' = 0
    /\ fredOutcome' = Fresh("none")
    /\ yahooOutcome' = Fresh("none")
    /\ yahooCount' = Fresh(0)
    /\ settledAt' = now
    /\ status' = [k \in Keys |-> IF k \in Batch(0) THEN "fred" ELSE "idle"]
    /\ fredCount' = [k \in Keys |-> IF k \in Batch(0) THEN 1 ELSE 0]
    /\ issuedAt' = now
    /\ fredIssued' = fredIssued + Cardinality(Batch(0))
    /\ batches' = <<Batch(0)>>
    /\ UNCHANGED <<now, slack, budget>>
    /\ UNCHANGED <<searchVars, fanVars, laterVars>>

\* what the FRED request of a key turned out to be: a throw, a body with
\* at least one observation that is neither '.' nor null, or a body
\* without one
Classify(r) ==
    IF r.kind = "error" THEN "error"
    ELSE IF \E n \in DOMAIN r.observations :
                r.observations[n] \notin {Placeholder, NULL}
    THEN "valid"
    ELSE "empty"

\* an inner catch that rethrows: a failed request rejects the promise
WorkerEndRethrows(outcome) == IF outcome = "error" THEN "rejected" ELSE "settled"

\* how the promise of a worker ends once its try/catch blocks are left:
\* every path falls off the end of the async function
WorkerEnd(outcome) == "settled"

\* the worker of key k resumes after its FRED request returned a body
FredOk(k, r) ==
    LET latestObs == Find(r.observations) IN
    /\ status' = [status EXCEPT ![k] = WorkerEnd("ok")]
    /\ settledAt' = now
    /\ IF Len(r.observations) > 0 /\ latestObs # Undefined
       THEN results' = [results EXCEPT ![k] = FredEntry(k, latestObs)]
       ELSE results' = results
    /\ UNCHANGED yahooCount

\* a catch block that gives up on the whole group: the failing worker
\* settles every worker of its batch
FredErrorCancels(k) ==
    /\ status' = [j \in Keys |-> IF status[j] \in {"fred", "yahoo"}
                                 THEN "settled" ELSE status[j]]
    /\ settledAt' = now
    /\ UNCHANGED <<yahooCount, results>>

\* the worker of key k resumes in its catch block after its FRED request
\* threw: treasury keys issue the Yahoo request, the others settle
FredError(k) ==
    /\ IF IncludesTreasury(k)
       THEN /\ status' = [status EXCEPT ![k] = "yahoo"]
            /\ yahooCount' = [yahooCount EXCEPT ![k] = @ + 1]
            /\ UNCHANGED settledAt
       ELSE /\ status' = [status EXCEPT ![k] = WorkerEnd("caught")]
            /\ settledAt' = now
            /\ UNCHANGED yahooCount
    /\ UNCHANGED results

FredResponse ==
    \E k \in Keys, r \in FredResponses :
        /\ op = "economic"
        /\ status[k] = "fred"
        /\ Classify(r) = "valid" \/ misses < budget
        /\ misses' = IF Classify(r) = "valid" THEN misses ELSE misses + 1
        /\ fredOutcome' = [fredOutcome EXCEPT ![k] = Classify(r)]
        /\ IF r.kind = "ok" THEN FredOk(k, r) ELSE FredError(k)
        /\ UNCHANGED <<op, pc, now, timerDue, i, retval, rows, batches, delays,
                       fredCount, yahooOutcome, issuedAt, slack, budget,
                       callsLeft, fredIssued>>
        /\ UNCHANGED <<searchVars, fanVars, laterVars>>

\* the worker of key k resumes after its Yahoo request: a price match is
\* stored, anything else (throw, no match) is swallowed
YahooResponse ==
    \E k \in Keys, y \in YahooResponses :
        /\ op = "economic"
        /\ status[k] = "yahoo"
        /\ status' = [status EXCEPT ![k] = WorkerEnd(y.kind)]
        /\ settledAt' = now
        /\ yahooOutcome' = [yahooOutcome EXCEPT ![k] =
                              IF y.kind = "price" THEN y.raw ELSE y.kind]
        /\ results' = IF y.kind = "price"
                      THEN [results EXCEPT ![k] = YahooEntry(k, y.raw)]
                      ELSE results
        /\ UNCHANGED <<op, pc, now, timerDue, i, retval, rows, batches, delays,
                       fredOutcome, fredCount, yahooCount, issuedAt, slack,
                       misses, budget, callsLeft, fredIssued>>
        /\ UNCHANGED <<searchVars, fanVars, laterVars>>

\* Object.keys(results)
ObjectKeys(res) == {k \in Keys : res[k] # NoValue}

\* the value extractEconomicData returns: results, or null when it is empty
EconomicReturn(res) ==
    IF Cardinality(ObjectKeys(res)) > 0
    THEN Return("results", Cardinality(ObjectKeys(res)), "none")
    ELSE Return("null", 0, "none")

\* a row builder that labels every row 'FRED'
ToEconomicRowAllFred(k, data) ==
    [indicator |-> KeyOf(k), value |-> data.value, series_id |-> data.seriesId,
     source |-> "FRED"]

\* the row toEconomicRows builds for one entry of the data
ToEconomicRow(k, data) ==
    [indicator |-> KeyOf(k), value |-> data.value, series_id |-> data.seriesId,
     source |-> IF data.source # Undefined THEN data.source ELSE "FRED"]

\* toEconomicRows, keyed by table position
toEconomicRows(data) ==
    [k \in Keys |-> IF data[k] # NoValue THEN ToEconomicRow(k, data[k]) ELSE NoRow]

\* the fallbackData fetchEconomicIndicators substitutes for a null result
fallbackData ==
    [k \in Keys |-> IF KeyOf(k) = "treasury10y"
                    THEN [value |-> NotAvailable, seriesId |-> "N/A",
                          source |-> Undefined]
                    ELSE NoValue]

\* the rows fetchEconomicIndicators returns
EconomicRows(res) ==
    IF EconomicReturn(res).kind = "null"
    THEN toEconomicRows(fallbackData)
    ELSE toEconomicRows(res)

\* `await Promise.all(batchPromises)` resumes: arm the delay timer, or
\* leave the loop, return, and let fetchEconomicIndicators build the rows
BatchSettled ==
    /\ op = "economic"
    /\ pc = "await"
    /\ AllSettled(i)
    /\ IF DelayNeeded(i)
       THEN /\ pc' = "delay"
            /\ timerDue' = now + delay
            /\ delays' = delays + 1
            /\ UNCHANGED <<i, retval, rows>>
       ELSE /\ pc' = "done"
            /\ i' = i + maxConcurrent
            /\ retval' = EconomicReturn(results)
            /\ rows' = EconomicRows(results)
            /\ UNCHANGED <<timerDue, delays>>
    /\ UNCHANGED <<op, now, status, results, batches, fredOutcome, fredCount,
                   yahooOutcome, yahooCount, issuedAt, settledAt, slack, misses,
                   budget, callsLeft, fredIssued>>
    /\ UNCHANGED <<searchVars, fanVars, laterVars>>

\* the setTimeout callback fires: i += maxConcurrent and the next batch
DelayElapsed ==
    /\ op = "economic"
    /\ pc = "delay"
    /\ now >= timerDue
    /\ i' = i + maxConcurrent
    /\ pc' = "await"
    /\ IssueBatch(i + maxConcurrent)
    /\ UNCHANGED <<op, now, timerDue, results, retval, rows, delays,
                   fredOutcome, yahooOutcome, yahooCount, settledAt, slack,
                   misses, budget, callsLeft>>
    /\ UNCHANGED <<searchVars, fanVars, laterVars>>

\* time passes while the inter-batch timer is armed
TimerTick ==
    /\ pc = "delay"
    /\ now < timerDue
    /\ now' = now + 1
    /\ UNCHANGED <<op, pc, timerDue, i, status, results, retval, rows, batches,
                   delays, fredOutcome, fredCount, yahooOutcome, yahooCount,
                   issuedAt, settledAt, slack, misses, budget, callsLeft,
                   fredIssued>>
    /\ UNCHANGED <<searchVars, fanVars, laterVars>>

\* time passes while responses are awaited (response latency)
LatencyTick ==
    /\ pc = "await"
    /\ slack > 0
    /\ slack' = slack - 1
    /\ now' = now + 1
    /\ UNCHANGED <<op, pc, timerDue, i, status, results, retval, rows, batches,
                   delays, fredOutcome, fredCount, yahooOutcome, yahooCount,
                   issuedAt, settledAt, misses, budget, callsLeft, fredIssued>>
    /\ UNCHANGED <<searchVars, fanVars, laterVars>>

----------------------------------------------------------------------------
(* fetchFredSeriesSearch / extractFredSeriesSearch *)

\* the searchTerms arguments tried, and searchTerms.trim()
SearchTerms == {"", "  ", "gdp"}
trim(s) == IF s = "  " THEN "" ELSE s

\* `limit: 10`, the limit the tool handler passes
searchLimit == 10

\* outcome of a search request: a throw, or a body with n hits (for the
\* sitesearch endpoint with status 'true' or not)
SearchResponses ==
    {[kind |-> "error", status |-> "none", n |-> 0]} \cup
    {[kind |-> "ok", status |-> st, n |-> n] : st \in {"true", "false"}, n \in 0..MaxItems}

\* fetchFredSeriesSearch is called: empty search terms throw, otherwise
\* extractFredSeriesSearch issues the sitesearch request
FetchFredSeriesSearch ==
    \E searchTerms \in SearchTerms :
        /\ pc = "idle"
        /\ callsLeft > 0
        /\ callsLeft' = callsLeft - 1
        /\ op' = "search"
        /\ limit' = searchLimit
        /\ IF trim(searchTerms) = ""
           THEN /\ pc' = "done"
                /\ retval' = Return("throw", 0, "none")
                /\ sPrimary' = "none"
           ELSE /\ pc' = "sitesearch"
                /\ retval' = NoReturn
                /\ sPrimary' = "pending"
        /\ sFallback' = "none"
        /\ UNCHANGED <<now, timerDue, i, status, results, batches, delays,
                       fredOutcome, yahooOutcome, fredCount, yahooCount,
                       issuedAt, settledAt, slack, misses, budget, fredIssued,
                       rows, apiKey, items, wstatus, wresult, wdate,
                       laterVars>>

\* response.data.status === 'true' && response.data.items.length > 0
SitesearchHit(r) == r.kind = "ok" /\ r.status = "true" /\ r.n > 0

\* the sitesearch request ended: a hit is returned, a body without hits
\* falls through to the standard API, a throw lands in the outer catch,
\* which returns null (fetchFredSeriesSearch then returns no rows)
SitesearchResponse ==
    \E r \in SearchResponses :
        /\ op = "search"
        /\ pc = "sitesearch"
        /\ sPrimary' = (IF r.kind = "error" THEN "error"
                        ELSE IF SitesearchHit(r) THEN "items" ELSE "empty")
        /\ IF SitesearchHit(r)
           THEN /\ pc' = "done"
                /\ retval' = Return("rows", Min(r.n, limit), "sitesearch")
                /\ UNCHANGED sFallback
           ELSE IF r.kind = "error"
           THEN /\ pc' = "done"
                /\ retval' = Return("rows", 0, "none")
                /\ UNCHANGED sFallback
           ELSE /\ pc' = "standard"
                /\ sFallback' = "pending"
                /\ UNCHANGED retval
        /\ UNCHANGED <<op, now, timerDue, i, status, results, batches, delays,
                       fredOutcome, yahooOutcome, fredCount, yahooCount,
                       issuedAt, settledAt, slack, misses, budget, callsLeft,
                       fredIssued, rows, fanVars, laterVars>>

\* the standard-API request ended: its series are returned, anything else
\* (no series, a throw caught by the outer catch) gives null, hence no rows
StandardSearchResponse ==
    \E r \in SearchResponses :
        /\ op = "search"
        /\ pc = "standard"
        /\ pc' = "done"
        /\ sFallback' = (IF r.kind = "error" THEN "error"
                         ELSE IF r.n > 0 THEN "items" ELSE "empty")
        /\ retval' = IF r.kind = "ok" /\ r.n > 0
                     THEN Return("rows", r.n, "standard")
                     ELSE Return("rows", 0, "none")
        /\ UNCHANGED <<op, now, timerDue, i, status, results, batches, delays,
                       fredOutcome, yahooOutcome, fredCount, yahooCount,
                       issuedAt, settledAt, slack, misses, budget, callsLeft,
                       fredIssued, rows, sPrimary, fanVars, laterVars>>

----------------------------------------------------------------------------
(* Per-item enrichment: extractFredCategories, extractFredVintageData,    *)
(* extractFredMapsData.  Each issues one list request and then one        *)
(* request per entry of the list, all inside a single Promise.all.        *)

\* process.env.FRED_API_KEY: unset, the demo key, or a real key
ApiKeys == {"unset", "demo", "valid"}

\* a credential check that forgets the demo key
KeyRejectedUnlessDemo(key) == key = "unset"

\* !apiKey || apiKey === 'demo'
KeyRejected(key) == key = "unset" \/ key = "demo"

\* the `limit` arguments tried for extractFredCategories (default 20)
CategoryLimits == {2, 20}

\* .slice(0, 5) of the vintage dates
vintageSlice == 5
\* .slice(0, 20) of the filtered geographic series
geoSlice == 20
\* .slice(0, 10): the geographic series that get their latest value
mapsSlice == 10

\* outcome of the list request: a throw or a body with n entries
ListResponses ==
    {[kind |-> "error", n |-> 0]} \cup {[kind |-> "ok", n |-> n] : n \in 0..MaxItems}

\* outcome of a per-item request: a throw, a body with the expected list
\* field (seriess / observations), or a body without it
ItemResponses == {"error", "body", "nobody"}

\* number of workers each operation starts for a list of n entries
CategoryWorkers(n, lim) == Min(n, lim)
VintageWorkers(n) == Min(n, vintageSlice)
MapsWorkers(n) == Min(Min(n, geoSlice), mapsSlice)

\* items.map(async ...) inside Promise.all: every worker runs up to its
\* first await, which issues its request
StartWorkers(n) ==
    /\ wstatus' = [j \in Workers |-> IF j <= n THEN "request" ELSE "idle"]
    /\ wresult' = [j \in Workers |-> "none"]
    /\ wdate' = [j \in Workers |-> 0]

\* every promise handed to Promise.all is fulfilled
WorkersSettled == \A j \in Workers : wstatus[j] \in {"idle", "done"}

EconUnchanged ==
    UNCHANGED <<now, timerDue, i, status, results, rows, batches, delays,
                fredOutcome, yahooOutcome, fredCount, yahooCount, issuedAt,
                settledAt, slack, misses, budget, fredIssued, searchVars,
                laterVars>>

\* the head of the three operations: the credential check, which throws
\* before any request, then the list request
CredentialCheck(name, key, lim) ==
    /\ pc = "idle"
    /\ callsLeft > 0
    /\ callsLeft' = callsLeft - 1
    /\ op' = name
    /\ apiKey' = key
    /\ limit' = lim
    /\ IF KeyRejected(key)
       THEN /\ pc' = "done"
            /\ retval' = Return("throw", 0, "none")
       ELSE /\ pc' = "list"
            /\ retval' = NoReturn
    /\ items' = 0
    /\ wstatus' = [j \in Workers |-> "idle"]
    /\ wresult' = [j \in Workers |-> "none"]
    /\ wdate' = [j \in Workers |-> 0]
    /\ EconUnchanged

ExtractFredCategories ==
    \E key \in ApiKeys, lim \in CategoryLimits :
        CredentialCheck("categories", key, lim)

ExtractFredVintageData ==
    \E key \in ApiKeys : CredentialCheck("vintage", key, 0)

ExtractFredMapsData ==
    \E key \in ApiKeys : CredentialCheck("maps", key, 0)

\* the list request of extractFredCategories ended
CategoriesListResponse ==
    \E r \in ListResponses :
        /\ op = "categories" /\ pc = "list"
        /\ items' = r.n
        /\ IF r.kind = "error"
           THEN /\ pc' = "done"
                /\ retval' = Return("throw", 0, "none")
                /\ UNCHANGED <<wstatus, wresult, wdate>>
           ELSE IF r.n = 0
           THEN /\ pc' = "done"
                /\ retval' = Return("rows", 0, "none")
                /\ UNCHANGED <<wstatus, wresult, wdate>>
           ELSE /\ pc' = "await"
                /\ StartWorkers(CategoryWorkers(r.n, limit))
                /\ UNCHANGED retval
        /\ UNCHANGED <<op, apiKey, limit, callsLeft>>
        /\ EconUnchanged

\* the list request of extractFredVintageData ended: no vintage dates is
\* an error
VintageListResponse ==
    \E r \in ListResponses :
        /\ op = "vintage" /\ pc = "list"
        /\ items' = r.n
        /\ IF r.kind = "error" \/ r.n = 0
           THEN /\ pc' = "done"
                /\ retval' = Return("throw", 0, "none")
                /\ UNCHANGED <<wstatus, wresult, wdate>>
           ELSE /\ pc' = "await"
                /\ StartWorkers(VintageWorkers(r.n))
                /\ UNCHANGED retval
        /\ UNCHANGED <<op, apiKey, limit, callsLeft>>
        /\ EconUnchanged

\* the list request of extractFredMapsData ended (n: the series that pass
\* the title filter); no series makes fetchFredMapsData throw
MapsListResponse ==
    \E r \in ListResponses :
        /\ op = "maps" /\ pc = "list"
        /\ items' = r.n
        /\ IF r.kind = "error" \/ r.n = 0
           THEN /\ pc' = "done"
                /\ retval' = Return("throw", 0, "none")
                /\ UNCHANGED <<wstatus, wresult, wdate>>
           ELSE /\ pc' = "await"
                /\ StartWorkers(MapsWorkers(r.n))
                /\ UNCHANGED retval
        /\ UNCHANGED <<op, apiKey, limit, callsLeft>>
        /\ EconUnchanged

FanUnchanged ==
    /\ UNCHANGED <<op, pc, retval, apiKey, limit, items, callsLeft>>
    /\ EconUnchanged

\* a category worker resumes: after a body it sleeps 200 ms, after a throw
\* it resolves at once with an empty sample list
CategoryWorkerResponse ==
    \E j \in Workers, r \in ItemResponses :
        /\ op = "categories" /\ wstatus[j] = "request"
        /\ wstatus' = [wstatus EXCEPT ![j] = IF r = "error" THEN "done" ELSE "sleep"]
        /\ wresult' = [wresult EXCEPT ![j] = "category"]
        /\ UNCHANGED wdate
        /\ FanUnchanged

\* Promise.all puts what the j-th promise resolved to at index j of the
\* array it resolves to
NextFreeSlot(j) == 1 + Cardinality({w \in Workers : wresult[w] # "none"})
ResultSlot(j) == j

\* a vintage worker resumes: observations resolve it at once with a
\* record, a body without observations sleeps 300 ms and then resolves to
\* undefined, a throw resolves it with a record without observations;
\* a record carries the vintageDate the worker was started for
VintageWorkerResponse ==
    \E j \in Workers, r \in ItemResponses :
        /\ op = "vintage" /\ wstatus[j] = "request"
        /\ wstatus' = [wstatus EXCEPT ![j] = IF r = "nobody" THEN "sleep" ELSE "done"]
        /\ wresult' = [wresult EXCEPT ![ResultSlot(j)] =
                          CASE r = "body" -> "record"
                            [] r = "nobody" -> Undefined
                            [] r = "error" -> "emptyRecord"]
        /\ wdate' = [wdate EXCEPT ![ResultSlot(j)] =
                        IF r = "nobody" THEN 0 ELSE j]
        /\ FanUnchanged

\* a maps worker resumes: after a body it sleeps 300 ms, after a throw it
\* resolves at once
MapsWorkerResponse ==
    \E j \in Workers, r \in ItemResponses :
        /\ op = "maps" /\ wstatus[j] = "request"
        /\ wstatus' = [wstatus EXCEPT ![j] = IF r = "error" THEN "done" ELSE "sleep"]
        /\ wresult' = [wresult EXCEPT ![j] = "series"]
        /\ UNCHANGED wdate
        /\ FanUnchanged

\* the rate-limiting setTimeout inside a worker fires and the worker
\* resolves
WorkerWake ==
    \E j \in Workers :
        /\ op \in {"categories", "vintage", "maps"}
        /\ wstatus[j] = "sleep"
        /\ wstatus' = [wstatus EXCEPT ![j] = "done"]
        /\ UNCHANGED <<wresult, wdate>>
        /\ FanUnchanged

\* number of promises the Promise.all was given
Started == Cardinality({j \in Workers : wstatus[j] # "idle"})

\* `await Promise.all(...)` resumes and the operation returns.  In
\* extractFredVintageData an entry that resolved to undefined makes the
\* following `.observations` access throw.
WorkersDone ==
    /\ op \in {"categories", "vintage", "maps"}
    /\ pc = "await"
    /\ WorkersSettled
    /\ pc' = "done"
    /\ retval' =
         CASE op = "categories" -> Return("rows", Started, "none")
           [] op = "maps" -> Return("rows", Min(items, geoSlice), "none")
           [] op = "vintage" ->
                IF \E j \in Workers : wstatus[j] = "done" /\ wresult[j] = Undefined
                THEN Return("throw", 0, "none")
                ELSE Return("rows", Cardinality({j \in Workers : wresult[j] = "record"}), "none")
    /\ UNCHANGED <<op, apiKey, limit, items, wstatus, wresult, wdate,
                   callsLeft>>
    /\ EconUnchanged

----------------------------------------------------------------------------
(* Properties of extractEconomicData *)

Economic == op = "economic"
EconomicDone == op = "economic" /\ pc = "done"

CeilDiv(n, c) == (n + c - 1) \div c

\* the groups issued so far, in order
NumBatches == Len(batches)
LowestOf(S) == CHOOSE x \in S : \A y \in S : x <= y
HighestOf(S) == CHOOSE x \in S : \A y \in S : x >= y

\* C1: the batch scheduler partitions the n indicators, in table order,
\* into consecutive groups: exactly ceil(n/c) groups are run, every group
\* but possibly the last has exactly c items, and every indicator is
\* requested in exactly one group.
C1_Partition ==
    Economic =>
        /\ \A b \in 1..NumBatches :
              /\ batches[b] # {}
              /\ batches[b] = LowestOf(batches[b])..HighestOf(batches[b])
              /\ Cardinality(batches[b]) <= maxConcurrent
              /\ LowestOf(batches[b]) = (IF b = 1 THEN 1 ELSE HighestOf(batches[b - 1]) + 1)
        /\ \A b \in 1..(NumBatches - 1) : Cardinality(batches[b]) = maxConcurrent
        /\ \A k \in Keys : fredCount[k] <= 1
        /\ pc = "done" =>
              /\ NumBatches = CeilDiv(NumIndicators, maxConcurrent)
              /\ \A k \in Keys :
                    /\ fredCount[k] = 1
                    /\ Cardinality({b \in 1..NumBatches : k \in batches[b]}) = 1

\* a finished call: seven groups, the last of them with four indicators
C1_Witness ==
    /\ EconomicDone
    /\ NumBatches = 7
    /\ Cardinality(batches[NumBatches]) = 4

\* the workers with a request in flight
InFlightKeys == {k \in Keys : status[k] \in {"fred", "yahoo"}}

\* the group a key belongs to, among the groups issued
GroupOf(k) == CHOOSE b \in 1..NumBatches : k \in batches[b]

\* C2: no request of group i+1 is issued until every worker of group i has
\* settled (primary and fallback request finished) and the 500 ms delay has
\* elapsed; the delay is taken between every two consecutive groups and
\* not after the final group.
C2_GroupOrder ==
    Economic =>
        /\ \A k \in InFlightKeys :
              \A b \in 1..(GroupOf(k) - 1) : \A j \in batches[b] : status[j] = "settled"
        /\ (NumBatches >= 2 /\ \A k \in batches[NumBatches] : status[k] # "settled")
              => issuedAt >= settledAt + delay
        /\ pc = "await" => delays = NumBatches - 1
        /\ pc = "delay" => /\ delays = NumBatches
                           /\ NumBatches < CeilDiv(NumIndicators, maxConcurrent)
                           /\ InFlightKeys = {}
        /\ pc = "done" => delays = CeilDiv(NumIndicators, maxConcurrent) - 1

\* a finished call in which a fallback request was made and time went by
\* while responses were awaited
C2_Witness ==
    /\ EconomicDone
    /\ slack = 0
    /\ now > delays
    /\ delays = 6
    /\ \E k \in Keys : yahooCount[k] = 1

\* C3: a failure of a single indicator's request leaves only that key
\* absent: nothing is cancelled, every other indicator of the same and of
\* the later groups is still requested and handled, and each of them whose
\* request returns a valid observation is present in the returned map.
C3_FailureIsolated ==
    EconomicDone =>
        /\ \A k \in Keys :
              /\ fredCount[k] = 1
              /\ fredOutcome[k] # "none"
              /\ fredOutcome[k] = "valid" => results[k] # NoValue
              /\ results[k] = NoValue => fredOutcome[k] \in {"error", "empty"}
        /\ retval.kind # "throw"
        /\ (\E k \in Keys : fredOutcome[k] = "valid") => retval.kind = "results"

\* a finished call in which the request of one indicator failed, while an
\* indicator of the same group and one of a later group are in the map
C3_Witness ==
    /\ EconomicDone
    /\ \E k \in Keys :
          /\ fredOutcome[k] = "error"
          /\ results[k] = NoValue
          /\ \E j \in batches[GroupOf(k)] : j # k /\ results[j] # NoValue
          /\ GroupOf(k) < NumBatches
          /\ \E j \in batches[GroupOf(k) + 1] : results[j] # NoValue

\* requests in flight: FRED and Yahoo requests of extractEconomicData and
\* per-item requests of the enrichment operations
InFlight ==
    Cardinality(InFlightKeys) + Cardinality({j \in Workers : wstatus[j] = "request"})

\* C4: no top-level operation fans out over its entire key set: the
\* number of in-flight requests of one call never exceeds the concurrency
\* cap, also for the per-item requests of extractFredCategories,
\* extractFredVintageData and extractFredMapsData.
C4_BoundedFanOut == InFlight <= maxConcurrent

\* the ceiling the documentation names, and 60 s in clock ticks
RateCeiling == 120
WindowTicks == 60000 \div 500

\* C5: at most 120 requests reach the FRED API in any 60-second window,
\* whatever the latencies and however many calls follow each other
\* (stated for the window that starts with the first call).
C5_RateCeiling == now <= WindowTicks => fredIssued <= RateCeiling

\* C6: for a treasury indicator the Yahoo fallback request is issued
\* before the worker settles whenever the FRED attempt yields no usable
\* value: when the request failed and when it succeeded without a valid
\* observation.
C6_FallbackOnAnyMiss ==
    Economic =>
        \A k \in Keys :
            (/\ IncludesTreasury(k)
             /\ status[k] = "settled"
             /\ fredOutcome[k] \in {"error", "empty"}) => yahooCount[k] >= 1

\* C7: the fallback is consulted only when the primary yielded no value:
\* a Yahoo request for a key is issued only after its FRED attempt ended
\* without a value, at most once, never for a key without a declared
\* substitute; a value stored from the primary is never replaced by a
\* fallback value.
C7_FallbackOnlyOnMiss ==
    Economic =>
        \A k \in Keys :
            /\ yahooCount[k] <= 1
            /\ yahooCount[k] >= 1 =>
                  /\ KeyOf(k) \in DOMAIN symbolMap
                  /\ fredOutcome[k] \in {"error", "empty"}
                  /\ fredCount[k] = 1
            /\ status[k] = "yahoo" => yahooCount[k] = 1 /\ results[k] = NoValue
            /\ fredOutcome[k] = "valid" =>
                  /\ yahooCount[k] = 0
                  /\ status[k] = "settled"
                  /\ results[k].source # "yahoo_finance"
                  /\ results[k].seriesId = SeriesIdOf(k)

\* a settled treasury worker whose value came from its one Yahoo request
C7_Witness ==
    /\ Economic
    /\ \E k \in Keys :
          /\ status[k] = "settled"
          /\ yahooCount[k] = 1
          /\ fredOutcome[k] = "error"
          /\ results[k].source = "yahoo_finance"

\* C8: fallback errors are swallowed: when the Yahoo request of a treasury
\* key fails or its page lacks the price fragment, the key stays absent,
\* the worker still settles normally, the rest of the group and the later
\* groups run, and the call returns every key that was obtained.
C8_FallbackErrorsSwallowed ==
    Economic =>
        /\ \A k \in Keys :
              yahooOutcome[k] \in {"error", "nomatch"} =>
                  /\ status[k] = "settled"
                  /\ results[k] = NoValue
        /\ pc = "done" =>
              /\ retval.kind \in {"results", "null"}
              /\ \A k \in Keys :
                    /\ fredOutcome[k] # "none"
                    /\ fredOutcome[k] = "valid" => results[k] # NoValue
              /\ retval.kind = "results" =>
                    retval.n = Cardinality({k \in Keys : results[k] # NoValue})

\* a finished call in which a fallback request failed: that key alone is
\* missing from the returned map
C8_Witness ==
    /\ EconomicDone
    /\ \E k \in Keys : yahooOutcome[k] = "error" /\ results[k] = NoValue
    /\ retval.kind = "results"
    /\ retval.n = NumIndicators - 1

\* the number a numeric text of the model stands for
NumberOf(t) == IF t = "3" THEN 3 ELSE 4

\* C9: when the primary is absent for a key and the secondary source
\* returns value v, the row of that key carries v, source 'yahoo_finance'
\* and the substitute symbol as series_id, whereas every row obtained from
\* the primary has source 'FRED' and the FRED series id.
C9_FallbackRowMarked ==
    (EconomicDone /\ retval.kind = "results") =>
        \A k \in Keys :
            /\ yahooOutcome[k] \in NumericStrings =>
                  /\ rows[k].indicator = KeyOf(k)
                  /\ rows[k].value = Num(NumberOf(yahooOutcome[k]))
                  /\ rows[k].source = "yahoo_finance"
                  /\ rows[k].series_id = symbolMap[KeyOf(k)]
            /\ (rows[k] # NoRow /\ yahooOutcome[k] \notin NumericStrings) =>
                  /\ fredOutcome[k] = "valid"
                  /\ rows[k].source = "FRED"
                  /\ rows[k].series_id = SeriesIdOf(k)

\* returned rows with a fallback value 4 next to rows from the primary
C9_Witness ==
    /\ EconomicDone
    /\ \E k \in Keys :
          /\ yahooOutcome[k] = "4"
          /\ rows[k].value = Num(4)
          /\ rows[k].source = "yahoo_finance"
    /\ \E j \in Keys : rows[j].source = "FRED"

\* the entry the outcomes of key k call for: the FRED observation when
\* there is a valid one, else the Yahoo price when one was matched
ExpectedEntry(k) ==
    IF fredOutcome[k] = "valid" THEN FredEntry(k, "3")
    ELSE IF yahooOutcome[k] \in NumericStrings
    THEN YahooEntry(k, yahooOutcome[k])
    ELSE NoValue

\* C24: results are keyed by item identity, never by arrival order: what
\* extractEconomicData holds under a key depends only on the outcomes of
\* that key's own requests, whatever the completion order within a group
\* (no write lands under another key and none is lost), and the list
\* extractFredVintageData hands to analyzeRevisions has the record of the
\* j-th requested vintage date at position j.
C24_KeyedByIdentity ==
    /\ Economic => \A k \in Keys : results[k] = ExpectedEntry(k)
    /\ op = "vintage" =>
          \A j \in Workers :
              /\ wresult[j] \in {"record", "emptyRecord"} => wdate[j] = j
              /\ wstatus[j] \in {"idle", "request"} => wresult[j] = "none"

\* a later key of a group has its entry while an earlier one is in flight
C24_Witness ==
    /\ Economic
    /\ \E b \in 1..NumBatches, k1, k2 \in Keys :
          /\ k1 < k2
          /\ k1 \in batches[b] /\ k2 \in batches[b]
          /\ status[k1] = "fred"
          /\ results[k2] = FredEntry(k2, "3")

\* C26: no outcome of the per-vintage requests makes extractFredVintageData
\* fail: whether a request succeeds with observations, succeeds with a
\* body without an observations field, or fails, the entry given to
\* analyzeRevisions is a record with a vintageDate and an observations
\* list, and the call returns its analysis.
C26_VintageOutcomesHandled ==
    (op = "vintage" /\ Started > 0) =>
        /\ \A j \in Workers :
              wstatus[j] = "done" => wresult[j] \in {"record", "emptyRecord"}
        /\ pc = "done" => retval.kind = "rows"

----------------------------------------------------------------------------
(* Properties of fetchFredSeriesSearch *)

\* C10: the standard search API is queried as fallback whenever the
\* sitesearch endpoint fails, both when it returns no items and when its
\* request fails; the result is empty only if both sources yielded
\* nothing, and no source error reaches the caller.
C10_SearchFallback ==
    (op = "search" /\ pc = "done" /\ sPrimary # "none") =>
        /\ sPrimary \in {"error", "empty"} => sFallback # "none"
        /\ retval.kind = "rows"
        /\ retval.n = 0 => (sPrimary # "items" /\ sFallback # "items")

----------------------------------------------------------------------------
(* Formatted-string decoding: parseFinancialValue (extractSummaryData),    *)
(* the fmt branch of getValue (toStockSummaryRow, toStockEstimatesRow)     *)
(* and parseRevenueValue.  A string is the sequence of its characters; a   *)
(* number is mant * 10^(exp - frac), so that 1.5 * 1e9 is exact.           *)

DigitChars == {"0", "1", "3", "5"}
DigitValue(c) ==
    CASE c = "0" -> 0 [] c = "1" -> 1 [] c = "3" -> 3 [] c = "5" -> 5
SuffixChars == {"K", "M", "B", "T", "G"}

Dec(mant, frac, exp) ==
    [type |-> "number", mant |-> mant, frac |-> frac, exp |-> exp]
DecNaN == [type |-> "NaN", mant |-> 0, frac |-> 0, exp |-> 0]
DecNull == [type |-> "null", mant |-> 0, frac |-> 0, exp |-> 0]

\* num * 10^e in JavaScript arithmetic (NaN stays NaN)
TimesPowerOfTen(num, e) ==
    IF num.type = "number" THEN [num EXCEPT !.exp = @ + e] ELSE num

\* the value of a run of digits
RECURSIVE DigitsValue(_)
DigitsValue(str) ==
    IF str = <<>> THEN 0
    ELSE 10 * DigitsValue(SubSeq(str, 1, Len(str) - 1))
         + DigitValue(str[Len(str)])

\* length of the longest prefix of str made of characters of S
PrefixLen(str, S) ==
    Cardinality({n \in 1..Len(str) : \A j \in 1..n : str[j] \in S})

\* parseFloat on a character sequence: an optional sign, digits, an
\* optional point and digits; NaN when no digit was read
parseFloatText(str) ==
    LET negative == Len(str) > 0 /\ str[1] = "-"
        body == IF negative THEN Tail(str) ELSE str
        intLen == PrefixLen(body, DigitChars)
        afterInt == SubSeq(body, intLen + 1, Len(body))
        hasPoint == Len(afterInt) > 0 /\ afterInt[1] = "."
        fracLen == IF hasPoint THEN PrefixLen(Tail(afterInt), DigitChars)
                   ELSE 0
        digits == SubSeq(body, 1, intLen)
                  \o (IF hasPoint THEN SubSeq(Tail(afterInt), 1, fracLen)
                      ELSE <<>>)
        magnitude == DigitsValue(digits)
    IN  IF intLen + fracLen = 0 THEN DecNaN
        ELSE Dec(IF negative THEN 0 - magnitude ELSE magnitude, fracLen, 0)

includes(str, c) == \E j \in 1..Len(str) : str[j] = c

\* str.replace(/,/g, '')
RECURSIVE removeCommas(_)
removeCommas(str) ==
    IF str = <<>> THEN <<>>
    ELSE IF Head(str) = "," THEN removeCommas(Tail(str))
    ELSE <<Head(str)>> \o removeCommas(Tail(str))

\* the strings that stand for a missing value: '--' and 'N/A'
OnlyDashes == {<<"-", "-">>}
NoDataTokens == {<<"-", "-">>, <<"N", "/", "A">>}

\* parseFinancialValue(value, text) of extractSummaryData
parseFinancialValue(value, txt) ==
    LET numStr == IF value # <<>> THEN value ELSE txt
        cleanStr == removeCommas(numStr)
    IN  IF value = <<>> /\ txt = <<>> THEN DecNull
        ELSE IF numStr \in NoDataTokens THEN DecNull
        ELSE IF includes(cleanStr, "T")
             THEN TimesPowerOfTen(parseFloatText(cleanStr), 12)
        ELSE IF includes(cleanStr, "B")
             THEN TimesPowerOfTen(parseFloatText(cleanStr), 9)
        ELSE IF includes(cleanStr, "M")
             THEN TimesPowerOfTen(parseFloatText(cleanStr), 6)
        ELSE IF includes(cleanStr, "K")
             THEN TimesPowerOfTen(parseFloatText(cleanStr), 3)
        ELSE parseFloatText(cleanStr)

\* const multipliers = { K: 1e3, M: 1e6, B: 1e9, T: 1e12, G: 1e9 }, as
\* powers of ten; `multipliers[suffix] || 1` for no suffix
multipliers == [K |-> 3, M |-> 6, B |-> 9, T |-> 12, G |-> 9]
Multiplier(suffix) ==
    IF suffix \in DOMAIN multipliers THEN multipliers[suffix] ELSE 0

\* str.match(/([\d.]+)([TKMBG]?)/): the first run of digits and points and
\* the suffix letter right after it, or no match
NumberChars == DigitChars \cup {"."}
MatchNumberSuffix(str) ==
    LET starts == {j \in 1..Len(str) : str[j] \in NumberChars}
        start == LowestOf(starts)
        run == PrefixLen(SubSeq(str, start, Len(str)), NumberChars)
        after == start + run
    IN  IF starts = {} THEN [matched |-> FALSE, num |-> <<>>, suffix |-> ""]
        ELSE [matched |-> TRUE,
              num |-> SubSeq(str, start, after - 1),
              suffix |-> IF after <= Len(str) /\ str[after] \in SuffixChars
                         THEN str[after] ELSE ""]

\* the fmt branch of getValue: a string without a match falls through to
\* `return null`
getValueFmt(fmtStr) ==
    LET match == MatchNumberSuffix(fmtStr)
    IN  IF match.matched
        THEN TimesPowerOfTen(parseFloatText(match.num),
                             Multiplier(match.suffix))
        ELSE DecNull

\* parseRevenueValue(text)
parseRevenueValue(txt) ==
    LET match == MatchNumberSuffix(txt)
    IN  IF txt = <<>> \/ txt \in NoDataTokens THEN DecNull
        ELSE IF ~match.matched THEN DecNull
        ELSE TimesPowerOfTen(parseFloatText(match.num),
                             Multiplier(match.suffix))

\* the strings tried: a numeral, with or without a fraction, followed by
\* a suffix letter or by nothing, and the two no-data tokens
RECURSIVE DigitStringsOfLen(_)
DigitStringsOfLen(n) ==
    IF n = 0 THEN {<<>>}
    ELSE {Append(t, c) : t \in DigitStringsOfLen(n - 1), c \in DigitChars}
DigitStrings == UNION {DigitStringsOfLen(n) : n \in 1..MaxDigits}
Numerals ==
    DigitStrings \cup
    {whole \o <<".">> \o part : whole \in DigitStrings,
                              part \in DigitStrings}
Suffixes == {<<>>} \cup {<<c>> : c \in SuffixChars}
SuffixedNumerals == {n \o x : n \in Numerals, x \in Suffixes}
DecoderInputs == SuffixedNumerals \cup NoDataTokens

NotDecoded == [parseFinancialValue |-> DecNull, getValue |-> DecNull,
               parseRevenueValue |-> DecNull, done |-> FALSE]

\* each decoder is applied to the string
DecodeText ==
    /\ ~decoded.done
    /\ decoded' = [parseFinancialValue |-> parseFinancialValue(text, <<>>),
                   getValue |-> getValueFmt(text),
                   parseRevenueValue |-> parseRevenueValue(text),
                   done |-> TRUE]
    /\ UNCHANGED <<text, observations, obsRows, vintages, analysis>>
    /\ UNCHANGED <<op, pc, retval, callsLeft, callVars, pageVars, restVars>>
    /\ UNCHANGED <<now, timerDue, i, status, results, rows, batches, delays,
                   fredOutcome, yahooOutcome, fredCount, yahooCount, issuedAt,
                   settledAt, slack, misses, budget, fredIssued, searchVars,
                   fanVars>>

----------------------------------------------------------------------------
(* Properties of the decoders *)

\* the numeral and the suffix a string of SuffixedNumerals is made of
SuffixOf(str) == IF str[Len(str)] \in SuffixChars THEN str[Len(str)] ELSE ""
NumeralOf(str) ==
    IF SuffixOf(str) = "" THEN str ELSE SubSeq(str, 1, Len(str) - 1)
\* the number a well-formed numeral denotes: its digits read as one
\* integer, and the count of digits behind the point
PointAt(numeral) ==
    IF \E j \in 1..Len(numeral) : numeral[j] = "."
    THEN CHOOSE j \in 1..Len(numeral) : numeral[j] = "."
    ELSE 0
NumeralDigits(numeral) == SelectSeq(numeral, LAMBDA c : c \in DigitChars)
NumeralFraction(numeral) ==
    IF PointAt(numeral) = 0 THEN 0 ELSE Len(numeral) - PointAt(numeral)
\* the scale the suffix stands for: 1e3 / 1e6 / 1e9 / 1e12 for K / M / B /
\* T, 1e9 for G, 1 for none
ScaleOf(suffix) ==
    CASE suffix = "K" -> 3 [] suffix = "M" -> 6 [] suffix = "B" -> 9
      [] suffix = "T" -> 12 [] suffix = "G" -> 9 [] OTHER -> 0
Scaled(str) ==
    Dec(DigitsValue(NumeralDigits(NumeralOf(str))),
        NumeralFraction(NumeralOf(str)), ScaleOf(SuffixOf(str)))

\* C20: every decoder maps <number><suffix> to number * 1e3 / 1e6 / 1e9 /
\* 1e12 for K / M / B / T, to number * 1e9 for G, and to the number itself
\* without a suffix, so all decoders agree on these strings.
C20_DecodersScale ==
    (decoded.done /\ text \in SuffixedNumerals) =>
        /\ decoded.parseFinancialValue = Scaled(text)
        /\ decoded.getValue = Scaled(text)
        /\ decoded.parseRevenueValue = Scaled(text)

----------------------------------------------------------------------------
(* Page extraction: what each extract* function makes of the page it       *)
(* fetched.  A page is described by the field signatures that match on it  *)
(* and by the shape of the matched fragments.                              *)

Fields == 1..MaxFields

\* JavaScript null, a string, and a parsed {raw, fmt} fragment whose raw
\* or fmt may be missing
NullValue == [type |-> "null", n |-> 0]
Str(s) == [type |-> "string", s |-> s]
Wrapper(raw, hasFmt, fmt) ==
    [type |-> "wrapper", raw |-> raw, hasFmt |-> hasFmt, fmt |-> fmt]
\* a property that was never set
Absent == UndefinedValue
NoFields == [f \in Fields |-> Absent]

\* Object.keys(data)
KeysOf(data) == {f \in Fields : data[f] # Absent}

\* shapes of an escaped-JSON fragment `\"field\":{...}`: raw and fmt, raw
\* 0, fmt only, neither, raw null, and text that JSON.parse rejects
JsonShapes == {"number", "zero", "fmtOnly", "bare", "rawNull", "broken"}
\* JSON.parse of a fragment that parses
ParsedFragment(shape) ==
    CASE shape = "number" -> Wrapper(Num(3), TRUE, <<"1">>)
      [] shape = "zero" -> Wrapper(Num(0), TRUE, <<"0">>)
      [] shape = "fmtOnly" -> Wrapper(UndefinedValue, TRUE, <<"1", "B">>)
      [] shape = "bare" -> Wrapper(UndefinedValue, FALSE, <<>>)
      [] shape = "rawNull" -> Wrapper(NullValue, FALSE, <<>>)

\* shapes of a fragment whose raw digits the pattern captures
NumberShapes == {"number", "zero"}
\* parseFloat / parseInt of the captured digits
CapturedNumber(shape) == IF shape = "zero" THEN Num(0) ELSE Num(3)

\* data-value texts of fin-streamer elements
HtmlShapes == {"html", "htmlDash"}
HtmlText(shape) == IF shape = "htmlDash" THEN <<"-", "-">> ELSE <<"1", "B">>

TextShapes == {"text"}

\* outcome of axios.get for a page: a throw (transport error, timeout,
\* non-2xx status, a body that is no string) or a page
PageError == [kind |-> "error", matched |-> {}, shape |-> "none"]
PagesWith(shapes) ==
    {PageError} \cup
    {[kind |-> "page", matched |-> m, shape |-> sh] :
        m \in SUBSET Fields, sh \in shapes}

\* what an extract* function returns
NullSnapshot == [kind |-> "null", fields |-> NoFields]
ObjectSnapshot(data) == [kind |-> "object", fields |-> data]

\* if (Object.keys(data).length > 0) return data; return null
StoreIfAny(data) ==
    IF KeysOf(data) # {} THEN ObjectSnapshot(data) ELSE NullSnapshot

\* the loop over the JSON patterns: a fragment that parses is stored, one
\* that does not is skipped by the inner catch
JsonFields(page) ==
    [f \in Fields |->
        IF f \in page.matched /\ page.shape # "broken"
        THEN ParsedFragment(page.shape) ELSE Absent]

\* the loop over the raw-number patterns
NumberFields(page) ==
    [f \in Fields |->
        IF f \in page.matched THEN CapturedNumber(page.shape) ELSE Absent]

\* extractAssetProfile: the page must hold address1 and fullTimeEmployees
address1 == 1
fullTimeEmployees == 2
profileMinFields == 5
ProfileFields(page) ==
    IF page.kind = "error" \/ ~({address1, fullTimeEmployees} \subseteq page.matched)
    THEN NoFields
    ELSE [f \in Fields |->
            IF f \notin page.matched THEN Absent
            ELSE IF f = fullTimeEmployees THEN Num(3) ELSE Str("x")]
extractAssetProfile(page) ==
    IF Cardinality(KeysOf(ProfileFields(page))) > profileMinFields
    THEN ObjectSnapshot(ProfileFields(page))
    ELSE NullSnapshot

\* extractSummaryData: a fin-streamer value is stored unless
\* parseFinancialValue gives null; other fields come from the JSON
SummaryFields(page) ==
    IF page.kind = "error" THEN NoFields
    ELSE IF page.shape \in HtmlShapes
    THEN [f \in Fields |->
            IF f \in page.matched
               /\ parseFinancialValue(HtmlText(page.shape), <<>>) # DecNull
            THEN Wrapper(parseFinancialValue(HtmlText(page.shape), <<>>),
                         TRUE, HtmlText(page.shape))
            ELSE Absent]
    ELSE JsonFields(page)
extractSummaryData(page) == StoreIfAny(SummaryFields(page))

\* extractEstimatesData, extractFinancialData
EstimatesFields(page) ==
    IF page.kind = "error" THEN NoFields ELSE JsonFields(page)
extractEstimatesData(page) == StoreIfAny(EstimatesFields(page))
FinancialFields(page) ==
    IF page.kind = "error" THEN NoFields ELSE JsonFields(page)
extractFinancialData(page) == StoreIfAny(FinancialFields(page))

\* extractPricingData: marketState is captured as a string, the other
\* fields are parsed fragments
marketState == 1
PricingFields(page) ==
    IF page.kind = "error" THEN NoFields
    ELSE [f \in Fields |->
            IF f = marketState /\ f \in page.matched THEN Str("REGULAR")
            ELSE JsonFields(page)[f]]
extractPricingData(page) == StoreIfAny(PricingFields(page))

\* extractDividendData, extractTechnicalData
DividendFields(page) ==
    IF page.kind = "error" THEN NoFields ELSE NumberFields(page)
extractDividendData(page) == StoreIfAny(DividendFields(page))
TechnicalFields(page) ==
    IF page.kind = "error" THEN NoFields ELSE NumberFields(page)
extractTechnicalData(page) == StoreIfAny(TechnicalFields(page))

\* extractNewsData: the matched signatures are the news items found; no
\* news section, or no item, gives null
NewsFields(page) ==
    IF page.kind = "error" THEN NoFields
    ELSE [f \in Fields |-> IF f \in page.matched THEN Str("x") ELSE Absent]
extractNewsData(page) == StoreIfAny(NewsFields(page))

\* extractPeerData: no industry on the page gives null; otherwise the
\* industry and whatever metrics matched are returned
industry == 1
PeerFields(page) ==
    IF page.kind = "error" \/ industry \notin page.matched THEN NoFields
    ELSE [f \in Fields |->
            IF f = industry THEN Str("x") ELSE NumberFields(page)[f]]
extractPeerData(page) == StoreIfAny(PeerFields(page))


----------------------------------------------------------------------------
(* Row converters: what each to*Row function makes of a snapshot.  A row   *)
(* column is indexed by the snapshot field it is read from.                *)

\* JavaScript falsiness of a snapshot field or of a getValue result
Falsy(v) ==
    \/ v.type \in {"null", "undefined", "NaN"}
    \/ v = Num(0)
    \/ (v.type = "string" /\ v.s = "")

\* a || b
OrElse(a, b) == IF Falsy(a) THEN b ELSE a

\* getValue of toStockSummaryRow and toStockEstimatesRow
getValue(obj) ==
    IF Falsy(obj) THEN NullValue
    ELSE IF obj.type = "number" THEN obj
    ELSE IF obj.type # "wrapper" THEN NullValue
    ELSE IF obj.raw # UndefinedValue THEN obj.raw
    ELSE IF obj.hasFmt /\ getValueFmt(obj.fmt) # DecNull
    THEN getValueFmt(obj.fmt)
    ELSE NullValue

\* getValue of toStockPricingRow and toStockFinancialsRow: no fmt branch
getValueRawOnly(obj) ==
    IF Falsy(obj) THEN NullValue
    ELSE IF obj.type = "number" THEN obj
    ELSE IF obj.type # "wrapper" THEN NullValue
    ELSE IF obj.raw # UndefinedValue THEN obj.raw
    ELSE NullValue

\* toStockProfileRow: industry has a stand-in text, the rest `|| null`
profileIndustry == 3
InformationNotAvailable == Str("Information not available")
toStockProfileRow(data) ==
    [f \in Fields |->
        IF f = profileIndustry THEN OrElse(data[f], InformationNotAvailable)
        ELSE OrElse(data[f], NullValue)]

toStockSummaryRow(data) == [f \in Fields |-> getValue(data[f])]
toStockEstimatesRow(data) == [f \in Fields |-> getValue(data[f])]
toStockFinancialsRow(data) == [f \in Fields |-> getValueRawOnly(data[f])]

\* toStockPricingRow: current_price falls back on regularMarketPrice, which
\* has no column of its own; market_state has a stand-in text
currentPrice == 2
regularMarketPrice == 3
UnknownMarketState == Str("UNKNOWN")
toStockPricingRow(data) ==
    [f \in Fields |->
        IF f = marketState THEN OrElse(data[f], UnknownMarketState)
        ELSE IF f = currentPrice
        THEN OrElse(getValueRawOnly(data[currentPrice]),
                    getValueRawOnly(data[regularMarketPrice]))
        ELSE IF f = regularMarketPrice THEN Absent
        ELSE getValueRawOnly(data[f])]

toDividendRow(data) == [f \in Fields |-> OrElse(data[f], NullValue)]
toTechnicalRow(data) == [f \in Fields |-> OrElse(data[f], NullValue)]

\* the row fetchStockDividends builds when extractDividendData gave null
NoDividendsRow == [f \in Fields |-> NullValue]

----------------------------------------------------------------------------
(* extractSummaryData, one field at a time: the fin-streamer scan, the     *)
(* attribute patterns, the escaped-JSON patterns and the trailingPE        *)
(* repair, followed by getValue of toStockSummaryRow                       *)

\* the snapshot fields the fin-streamer scan fills (values of fieldMapping)
fieldMapping ==
    {"marketCap", "trailingPE", "forwardPE", "beta", "enterpriseValue",
     "sharesOutstanding", "pegRatio"}
\* the entries of additionalMetrics that capture a data-value attribute
attributeMetrics == {"trailingEps", "forwardEps"}
\* the keys of jsonFieldPatterns
jsonFieldPatterns ==
    {"enterpriseValue", "sharesOutstanding", "beta", "forwardPE",
     "trailingEps", "forwardEps", "pegRatio", "enterpriseToEbitda",
     "enterpriseToRevenue"}
\* the one pattern written \{[^}]*\}, which also matches {}
emptyObjectPatterns == {"pegRatio"}

\* the element of the field: its data-value attribute ("" when missing)
\* and its trimmed text
NoElement == [present |-> FALSE, dataValue |-> <<>>, text |-> <<>>]
Element(dataValue, txt) ==
    [present |-> TRUE, dataValue |-> dataValue, text |-> txt]

\* the fragment \"<field>\":{...} of the page: missing, not parseable, or
\* the object JSON.parse returns
NoFragment == [kind |-> "none", object |-> Absent]
BrokenFragment == [kind |-> "broken", object |-> Absent]
Fragment(object) == [kind |-> "object", object |-> object]
EmptyObject == Wrapper(UndefinedValue, FALSE, <<>>)

RECURSIVE PowerOfTen(_)
PowerOfTen(e) == IF e <= 0 THEN 1 ELSE 10 * PowerOfTen(e - 1)

\* raw < 10 and raw > 10 in JavaScript: false for NaN and undefined, and
\* null compares as 0
LessThanTen(raw) ==
    \/ raw.type = "null"
    \/ /\ raw.type = "number"
       /\ IF raw.exp >= raw.frac
          THEN raw.mant * PowerOfTen(Min(raw.exp - raw.frac, 2)) < 10
          ELSE raw.mant < 10 * PowerOfTen(raw.frac - raw.exp)
MoreThanTen(raw) ==
    /\ raw.type = "number"
    /\ IF raw.exp >= raw.frac
       THEN raw.mant * PowerOfTen(Min(raw.exp - raw.frac, 2)) > 10
       ELSE raw.mant > 10 * PowerOfTen(raw.frac - raw.exp)

\* the fin-streamer scan: `if (value !== null)` stores { raw, fmt }
FromFinStreamer(f, el) ==
    LET value == parseFinancialValue(el.dataValue, el.text)
    IN  IF f \in fieldMapping /\ el.present /\ value # DecNull
        THEN Wrapper(value, TRUE,
                     IF el.dataValue # <<>> THEN el.dataValue ELSE el.text)
        ELSE Absent

\* the attribute patterns: `match && match[1]`, parseFloat, `!isNaN(value)`
FromAttribute(f, el) ==
    IF /\ f \in attributeMetrics
       /\ el.present
       /\ el.dataValue # <<>>
       /\ parseFloatText(el.dataValue) # DecNaN
    THEN Wrapper(parseFloatText(el.dataValue), TRUE, el.dataValue)
    ELSE Absent

FromHtml(f, el) ==
    IF f \in attributeMetrics THEN FromAttribute(f, el)
    ELSE FromFinStreamer(f, el)

\* html.match(pattern) of the field's fragment
Matches(f, frag) ==
    /\ frag.kind # "none"
    /\ frag.object = EmptyObject => f \in emptyObjectPatterns

\* the jsonFieldPatterns loop: `if (!summaryData[field])`, then the parsed
\* object is stored as it is
FromJson(f, frag, sofar) ==
    IF /\ f \in jsonFieldPatterns
       /\ Falsy(sofar)
       /\ Matches(f, frag)
       /\ frag.kind = "object"
    THEN frag.object
    ELSE sofar

\* the trailingPE repair: a stored raw below 10 is replaced by the JSON
\* object when that one's raw is above 10
RepairTrailingPE(f, frag, sofar) ==
    IF /\ f = "trailingPE"
       /\ ~Falsy(sofar)
       /\ LessThanTen(sofar.raw)
       /\ frag.kind = "object"
       /\ frag.object # EmptyObject
       /\ MoreThanTen(frag.object.raw)
    THEN frag.object
    ELSE sofar

\* summaryData[field] when extractSummaryData returns
extractSummaryField(f, el, frag) ==
    RepairTrailingPE(f, frag, FromJson(f, frag, FromHtml(f, el)))

\* the fields, strings and fragments the model draws a page from
SummaryFieldNames ==
    {"marketCap", "trailingPE", "forwardPE", "pegRatio", "trailingEps"}
ThreeTrillion == <<"3", ".", "0", "0", "T">>
SummaryStrings ==
    {<<>>, <<"-", "-">>, <<"N", "/", "A">>, <<"5">>, <<"1", "5">>, <<"x">>,
     ThreeTrillion}
Elements ==
    {NoElement} \cup {Element(d, t) : d \in SummaryStrings, t \in SummaryStrings}
Fragments ==
    {NoFragment, BrokenFragment, Fragment(EmptyObject),
     Fragment(Wrapper(UndefinedValue, TRUE, <<"-", "-">>)),
     Fragment(Wrapper(Dec(15, 1, 0), TRUE, <<"1", ".", "5">>)),
     Fragment(Wrapper(Dec(5, 0, 0), TRUE, <<"5">>)),
     Fragment(Wrapper(Dec(15, 0, 0), TRUE, <<"1", "5">>)),
     Fragment(Wrapper(Dec(3, 0, 12), TRUE, ThreeTrillion))}

SummaryFrame ==
    UNCHANGED <<op, pc, now, timerDue, i, status, results, retval, rows,
                batches, delays, fredOutcome, yahooOutcome, fredCount,
                yahooCount, issuedAt, settledAt, slack, misses, budget,
                callsLeft, fredIssued, searchVars, fanVars, callVars,
                pureVars, pageVars, metricVars, peerVars>>

\* extractSummaryData fills the field and toStockSummaryRow converts it
ExtractSummaryField ==
    /\ field # "none"
    /\ rowField = Absent
    /\ summaryField' = extractSummaryField(field, element, fragment)
    /\ rowField' = getValue(summaryField')
    /\ UNCHANGED <<field, element, fragment>>
    /\ SummaryFrame

NextSummary == DecodeText \/ ExtractSummaryField

----------------------------------------------------------------------------
(* Properties of the summary field *)

Dashes == <<"-", "-">>
NotAvailableText == <<"N", "/", "A">>
AbsentTokens == {Dashes, NotAvailableText}
SummaryExtracted == rowField # Absent

\* the string the element hands to its decoder is a token: the attribute
\* value, or the element text when there is no attribute value
TokenReachesDecoder ==
    /\ element.present
    /\ \/ element.dataValue \in AbsentTokens
       \/ /\ field \in fieldMapping
          /\ element.dataValue = <<>>
          /\ element.text \in AbsentTokens
\* the stored object has no raw and a token as its fmt
TokenReachesFmtBranch ==
    /\ summaryField.type = "wrapper"
    /\ summaryField.raw = UndefinedValue
    /\ summaryField.hasFmt
    /\ summaryField.fmt \in AbsentTokens

\* C21: the tokens '--' and 'N/A' decode to null in parseFinancialValue,
\* parseRevenueValue and the fmt branch of getValue, whether the token is
\* the attribute value or the element text, and the row field made of a
\* token is null, never 0.
C21_TokensDecodeToNull ==
    /\ (decoded.done /\ text \in AbsentTokens) =>
           /\ decoded.parseFinancialValue = DecNull
           /\ decoded.getValue = DecNull
           /\ decoded.parseRevenueValue = DecNull
    /\ (SummaryExtracted /\ TokenReachesDecoder /\ fragment = NoFragment) =>
           /\ summaryField = Absent
           /\ rowField = NullValue
    /\ (SummaryExtracted /\ TokenReachesFmtBranch) => rowField = NullValue

C21_Witness ==
    /\ decoded.done
    /\ text = NotAvailableText
    /\ SummaryExtracted
    /\ field = "marketCap"
    /\ element = Element(<<>>, Dashes)
    /\ fragment = NoFragment
    /\ rowField = NullValue

IsFiniteNumber(v) == v.type = "number"

\* C22: a field is present in the snapshot of extractSummaryData only if
\* its decoded value is a finite number; an attribute value, element text
\* or JSON object that does not decode to one leaves the field absent, so
\* no summary row field is NaN or a non-numeric value.
C22_PresentOnlyIfFinite ==
    SummaryExtracted =>
        /\ summaryField # Absent =>
               (summaryField.type = "wrapper" /\ IsFiniteNumber(summaryField.raw))
        /\ rowField = NullValue \/ IsFiniteNumber(rowField)

\* the fragment \"marketCap\":{\"raw\":3000000000000,\"fmt\":\"3.00T\"}
MarketCapFragment == Fragment(Wrapper(Dec(3, 0, 12), TRUE, ThreeTrillion))
\* v is the number 3 * 10^12, however it is written
IsThreeTrillion(v) ==
    /\ v.type = "number"
    /\ v.frac + 12 >= v.exp
    /\ v.mant = 3 * PowerOfTen(v.frac + 12 - v.exp)

\* C23: a quote page that contains the escaped-JSON fragment
\* \"marketCap\":{\"raw\":3000000000000,\"fmt\":\"3.00T\"} gives a summary
\* row whose market_cap is the number 3000000000000, not a string and not
\* null.
C23_MarketCapFromJson ==
    (/\ SummaryExtracted
     /\ field = "marketCap"
     /\ fragment = MarketCapFragment
     /\ ~element.present) => IsThreeTrillion(rowField)

\* what the DOM scan and the embedded JSON each supply for the field
DomValue == FromHtml(field, element)
JsonSupplies ==
    fragment.kind = "object" /\ fragment.object.raw.type = "number"
\* the plausibility check: a trailingPE below 10 looks like a per-share
\* figure
FailsPlausibility == field = "trailingPE" /\ LessThanTen(DomValue.raw)

\* C25: when the DOM scan and the embedded JSON both supply a field, the
\* DOM value is kept only if it passes the plausibility check; a trailingPE
\* from the DOM below 10 is not kept and the JSON value is used instead;
\* otherwise a JSON value is used only for a field the DOM did not supply.
C25_DomPrecedence ==
    (SummaryExtracted /\ DomValue # Absent /\ JsonSupplies) =>
        IF FailsPlausibility
        THEN summaryField = fragment.object
        ELSE summaryField = DomValue

----------------------------------------------------------------------------
(* The metric patterns of extractMarketIndicesData, fetchPeerMetrics,      *)
(* extractStockScreenerData and extractStockCorrelationData, one metric at *)
(* a time, followed by its column in toMarketIndicesRows,                  *)
(* toPeerComparisonRows, toScreenerRows and toCorrelationRows              *)

\* the metrics each converter turns into a column with `|| null`
indicesMetrics == {"price", "change", "changePercent", "volume", "marketCap"}
peerMetrics ==
    {"marketCap", "trailingPE", "forwardPE", "pegRatio", "priceToBook",
     "enterpriseValue", "revenueGrowth", "earningsGrowth"}
screenerMetrics ==
    {"price", "marketCap", "trailingPE", "forwardPE", "pegRatio",
     "priceToBook", "dividendYield", "revenueGrowth", "earningsGrowth",
     "profitMargins", "returnOnEquity", "debtToEquity", "beta", "volume",
     "averageVolume"}
correlationMetrics == {"price", "changePercent"}
Converters ==
    {"toMarketIndicesRows", "toPeerComparisonRows", "toScreenerRows",
     "toCorrelationRows"}
MetricsOf(c) ==
    CASE c = "toMarketIndicesRows" -> indicesMetrics
      [] c = "toPeerComparisonRows" -> peerMetrics
      [] c = "toScreenerRows" -> screenerMetrics
      [] c = "toCorrelationRows" -> correlationMetrics

\* the metrics whose pattern captures (\d+): no point, no fraction
integerPatterns == {"volume", "marketCap", "averageVolume", "enterpriseValue"}

\* the number after \"raw\": on the page, or no such fragment
NoRaw == <<"n", "o", "n", "e">>
RawTexts == {NoRaw, <<"0">>, <<"0", ".", "0">>, <<"3">>, <<"1", ".", "5">>}

\* match[1]: what the pattern of the metric captures of the number
Captured(m, raw) ==
    IF m \in integerPatterns THEN SubSeq(raw, 1, PrefixLen(raw, DigitChars))
    ELSE raw

\* metrics[metric] after the pattern loop: parseFloat / parseInt of the
\* capture when the pattern matched
ExtractMetric(m, raw) ==
    IF raw = NoRaw THEN Absent ELSE parseFloatText(Captured(m, raw))

\* JavaScript falsiness of a stored metric
FalsyMetric(v) ==
    \/ v.type \in {"null", "undefined", "NaN"}
    \/ v.type = "number" /\ v.mant = 0

\* metrics.<metric> || null
OrNull(v) == IF FalsyMetric(v) THEN NullValue ELSE v

MetricsFrame ==
    UNCHANGED <<op, pc, now, timerDue, i, status, results, retval, rows,
                batches, delays, fredOutcome, yahooOutcome, fredCount,
                yahooCount, issuedAt, settledAt, slack, misses, budget,
                callsLeft, fredIssued, searchVars, fanVars, callVars,
                pureVars, pageVars, summaryVars, peerVars>>

\* the pattern loop stores the metric and the converter makes its column
ConvertMetric ==
    /\ converter # "none"
    /\ metricRow = Absent
    /\ metricValue' = ExtractMetric(metric, rawText)
    /\ metricRow' = OrNull(metricValue')
    /\ UNCHANGED <<converter, metric, rawText>>
    /\ MetricsFrame

NextMetrics == ConvertMetric

----------------------------------------------------------------------------
(* Properties of the metric columns *)

MetricConverted == metricRow # Absent
IsZero(v) == v.type = "number" /\ v.mant = 0

\* C29: a metric extracted with the value 0 appears as 0 in the row; a
\* column of toMarketIndicesRows, toPeerComparisonRows, toScreenerRows and
\* toCorrelationRows is null only when the metric was not extracted.
C29_ZeroStaysZero ==
    MetricConverted =>
        /\ IsZero(metricValue) => IsZero(metricRow)
        /\ metricRow = NullValue => metricValue = Absent

----------------------------------------------------------------------------
(* The fetch* operations that read pages                                    *)

\* operations that read one page and return one row
RowOperations ==
    {"fetchYahooProfile", "fetchYahooSummary", "fetchYahooEstimates",
     "fetchYahooPricing", "fetchYahooFinancials", "fetchStockDividends",
     "fetchStockTechnicals"}
\* operations that read one page and return a list
ListOperations == {"fetchStockNews"}
\* operations whose extraction requests several pages in turn
LoopOperations ==
    {"fetchRevenueBreakdown", "fetchMarketIndices", "fetchStockScreener"}
PageOperations ==
    RowOperations \cup ListOperations \cup LoopOperations
        \cup {"fetchStockPeers"}

\* the pages an operation can be sent
PagesOf(o) ==
    CASE o = "fetchYahooProfile" -> PagesWith(TextShapes)
      [] o = "fetchYahooSummary" -> PagesWith(JsonShapes \cup HtmlShapes)
      [] o \in {"fetchYahooEstimates", "fetchYahooPricing",
                "fetchYahooFinancials"} -> PagesWith(JsonShapes)
      [] o = "fetchStockNews" -> PagesWith(TextShapes)
      [] OTHER -> PagesWith(NumberShapes)

\* the fields the extraction read from the page before it decided what to
\* return
FieldsRead(o, page) ==
    CASE o = "fetchYahooProfile" -> ProfileFields(page)
      [] o = "fetchYahooSummary" -> SummaryFields(page)
      [] o = "fetchYahooEstimates" -> EstimatesFields(page)
      [] o = "fetchYahooPricing" -> PricingFields(page)
      [] o = "fetchYahooFinancials" -> FinancialFields(page)
      [] o = "fetchStockDividends" -> DividendFields(page)
      [] o = "fetchStockTechnicals" -> TechnicalFields(page)
      [] o = "fetchStockNews" -> NewsFields(page)
      [] o = "fetchStockPeers" -> PeerFields(page)

\* the extract* call of each operation
Extract(o, page) ==
    CASE o = "fetchYahooProfile" -> extractAssetProfile(page)
      [] o = "fetchYahooSummary" -> extractSummaryData(page)
      [] o = "fetchYahooEstimates" -> extractEstimatesData(page)
      [] o = "fetchYahooPricing" -> extractPricingData(page)
      [] o = "fetchYahooFinancials" -> extractFinancialData(page)
      [] o = "fetchStockDividends" -> extractDividendData(page)
      [] o = "fetchStockTechnicals" -> extractTechnicalData(page)
      [] o = "fetchStockNews" -> extractNewsData(page)
      [] o = "fetchStockPeers" -> extractPeerData(page)

\* the to*Row call of each operation that returns one row
ToRow(o, data) ==
    CASE o = "fetchYahooProfile" -> toStockProfileRow(data)
      [] o = "fetchYahooSummary" -> toStockSummaryRow(data)
      [] o = "fetchYahooEstimates" -> toStockEstimatesRow(data)
      [] o = "fetchYahooPricing" -> toStockPricingRow(data)
      [] o = "fetchYahooFinancials" -> toStockFinancialsRow(data)
      [] o = "fetchStockDividends" -> toDividendRow(data)
      [] o = "fetchStockTechnicals" -> toTechnicalRow(data)

\* what a fetch* function does when its extract* call gave null: all throw
\* but fetchStockDividends, which returns a row of nulls, and
\* fetchStockScreener, which returns an empty list
ThrowsOnNull(o) == o \notin {"fetchStockDividends", "fetchStockScreener"}

\* number of pages a multi-page extraction requests
segmentAndGeography == 2
indicesCount == 10
stockUniverseLength == 70
defaultMaxResults == 20
MaxResultsArgs == {0, 1, stockUniverseLength + 1}
maxStocks(maxResults) ==
    LET wanted == IF maxResults = 0 THEN defaultMaxResults ELSE maxResults
    IN  IF wanted < stockUniverseLength THEN wanted ELSE stockUniverseLength
peersLimit == 4

\* the state a page call leaves alone
PageFrame ==
    UNCHANGED <<now, timerDue, i, status, results, rows, batches, delays,
                fredOutcome, yahooOutcome, fredCount, yahooCount, issuedAt,
                settledAt, slack, misses, budget, fredIssued, searchVars,
                fanVars, callsLeft, callVars, pureVars, restVars>>

\* a fetch* function is called and its extract* function issues the first
\* request
FetchPage ==
    \E o \in PageOperations, maxResults \in MaxResultsArgs :
        /\ pc = "idle"
        /\ op' = o
        /\ pc' = IF o \in LoopOperations THEN "loop" ELSE "page"
        /\ pagesLeft' =
             CASE o = "fetchRevenueBreakdown" -> segmentAndGeography
               [] o = "fetchMarketIndices" -> indicesCount
               [] o = "fetchStockScreener" -> maxStocks(maxResults)
               [] OTHER -> 0
        /\ UNCHANGED <<retval, extracted, snapshot, row, entries,
                       blankEntries, pageArrived>>
        /\ PageFrame

\* the page of a one-row operation arrived or its request failed; the
\* extract* function returns and the fetch* function ends in the same turn
RowPageResponse ==
    \E page \in PagesOf(op) :
        /\ op \in RowOperations
        /\ pc = "page"
        /\ pc' = "done"
        /\ extracted' = FieldsRead(op, page)
        /\ snapshot' = Extract(op, page)
        /\ IF snapshot'.kind = "object"
           THEN /\ row' = ToRow(op, snapshot'.fields)
                /\ retval' = Return("rows", 1, "page")
           ELSE IF ThrowsOnNull(op)
           THEN /\ row' = row
                /\ retval' = Return("throw", 0, "extract")
           ELSE /\ row' = NoDividendsRow
                /\ retval' = Return("rows", 1, "page")
        /\ pageArrived' = (page.kind = "page")
        /\ UNCHANGED <<op, pagesLeft, entries, blankEntries>>
        /\ PageFrame

\* fetchStockNews: one row per item found
NewsPageResponse ==
    \E page \in PagesOf(op) :
        /\ op \in ListOperations
        /\ pc = "page"
        /\ pc' = "done"
        /\ extracted' = FieldsRead(op, page)
        /\ snapshot' = Extract(op, page)
        /\ entries' = Cardinality(KeysOf(snapshot'.fields))
        /\ retval' = IF snapshot'.kind = "object"
                     THEN Return("rows", entries', "page")
                     ELSE Return("throw", 0, "extract")
        /\ pageArrived' = (page.kind = "page")
        /\ UNCHANGED <<op, row, pagesLeft, blankEntries>>
        /\ PageFrame

\* fetchStockPeers: the target page; with a snapshot, fetchPeerMetrics
\* starts on its peers
PeerPageResponse ==
    \E page \in PagesOf(op), peers \in 0..peersLimit :
        /\ op = "fetchStockPeers"
        /\ pc = "page"
        /\ extracted' = FieldsRead(op, page)
        /\ snapshot' = Extract(op, page)
        /\ IF snapshot'.kind = "null"
           THEN /\ pc' = "done"
                /\ retval' = Return("throw", 0, "extract")
                /\ pagesLeft' = 0
           ELSE IF peers = 0
           THEN /\ pc' = "done"
                /\ retval' = Return("rows", 1, "page")
                /\ pagesLeft' = 0
           ELSE /\ pc' = "loop"
                /\ retval' = retval
                /\ pagesLeft' = peers
        /\ pageArrived' = (page.kind = "page")
        /\ UNCHANGED <<op, row, entries, blankEntries>>
        /\ PageFrame

\* what the loop body of a multi-page extraction stores for one page:
\* stored tells whether an entry is stored, blank whether that entry
\* carries no field read from the page
LoopStore(o, page, passesScreen) ==
    LET read == KeysOf(NumberFields(page))
    IN  CASE page.kind = "error" -> [stored |-> FALSE, blank |-> FALSE]
          [] o \in {"fetchRevenueBreakdown", "fetchMarketIndices"} ->
                [stored |-> read # {}, blank |-> FALSE]
          [] o = "fetchStockScreener" ->
                [stored |-> read = {} \/ passesScreen, blank |-> read = {}]
          [] OTHER -> [stored |-> TRUE, blank |-> read = {}]

\* whether the loop body sleeps before the next page
SleepsAfter(o, page) == o # "fetchRevenueBreakdown" /\ page.kind = "page"

\* the end of a multi-page call once its last page is done
LoopEnd(o, stored, blank) ==
    IF o = "fetchStockPeers"
    THEN [snapshot |-> snapshot,
          retval |-> Return("rows", stored + 1, "page")]
    ELSE IF stored > 0
    THEN [snapshot |-> ObjectSnapshot(NoFields),
          retval |-> Return("rows", stored, "page")]
    ELSE IF ThrowsOnNull(o)
    THEN [snapshot |-> NullSnapshot,
          retval |-> Return("throw", 0, "extract")]
    ELSE [snapshot |-> NullSnapshot, retval |-> Return("rows", 0, "page")]

\* what one request of a multi-page extraction can get: a failure, a page
\* on which no metric pattern matches, and a page on which they match
LoopPages ==
    {PageError} \cup
    {[kind |-> "page", matched |-> m, shape |-> "number"] : m \in {{}, Fields}}

\* one page of a multi-page extraction arrived or its request failed
LoopPageResponse ==
    \E page \in LoopPages, passesScreen \in BOOLEAN :
        LET store == LoopStore(op, page, passesScreen)
            stored == IF store.stored THEN entries + 1 ELSE entries
            blank == IF store.stored /\ store.blank
                     THEN blankEntries + 1 ELSE blankEntries
        IN  /\ op \in LoopOperations \cup {"fetchStockPeers"}
            /\ pc = "loop"
            /\ pagesLeft > 0
            /\ pagesLeft' = pagesLeft - 1
            /\ entries' = stored
            /\ blankEntries' = blank
            /\ IF SleepsAfter(op, page)
               THEN /\ pc' = "sleep"
                    /\ UNCHANGED <<snapshot, retval>>
               ELSE IF pagesLeft' > 0
               THEN /\ pc' = "loop"
                    /\ UNCHANGED <<snapshot, retval>>
               ELSE /\ pc' = "done"
                    /\ snapshot' = LoopEnd(op, stored, blank).snapshot
                    /\ retval' = LoopEnd(op, stored, blank).retval
            /\ pageArrived' = (pageArrived \/ page.kind = "page")
            /\ UNCHANGED <<op, extracted, row>>
            /\ PageFrame

\* the sleep after a page ended: the next request goes out, or the call
\* comes to its end
LoopWake ==
    /\ pc = "sleep"
    /\ op \in LoopOperations \cup {"fetchStockPeers"}
    /\ IF pagesLeft > 0
       THEN /\ pc' = "loop"
            /\ UNCHANGED <<snapshot, retval>>
       ELSE /\ pc' = "done"
            /\ snapshot' = LoopEnd(op, entries, blankEntries).snapshot
            /\ retval' = LoopEnd(op, entries, blankEntries).retval
    /\ UNCHANGED <<op, extracted, row, pagesLeft, entries, blankEntries,
                   pageArrived>>
    /\ PageFrame

NextPages ==
    \/ FetchPage
    \/ RowPageResponse
    \/ NewsPageResponse
    \/ PeerPageResponse
    \/ LoopPageResponse
    \/ LoopWake

----------------------------------------------------------------------------
(* fetchEconomicIndicators while FRED and Yahoo are unreachable *)

\* the FRED request of key k throws
FredDown ==
    \E k \in Keys :
        /\ op = "economic"
        /\ status[k] = "fred"
        /\ misses < budget
        /\ misses' = misses + 1
        /\ fredOutcome' = [fredOutcome EXCEPT ![k] = "error"]
        /\ FredError(k)
        /\ UNCHANGED <<op, pc, now, timerDue, i, retval, rows, batches, delays,
                       fredCount, yahooOutcome, issuedAt, slack, budget,
                       callsLeft, fredIssued>>
        /\ UNCHANGED <<searchVars, fanVars, laterVars>>

\* the Yahoo request of key k throws, which the worker swallows
YahooDown ==
    \E k \in Keys :
        /\ op = "economic"
        /\ status[k] = "yahoo"
        /\ status' = [status EXCEPT ![k] = WorkerEnd("error")]
        /\ settledAt' = now
        /\ yahooOutcome' = [yahooOutcome EXCEPT ![k] = "error"]
        /\ UNCHANGED <<op, pc, now, timerDue, i, results, retval, rows,
                       batches, delays, fredOutcome, fredCount, yahooCount,
                       issuedAt, slack, misses, budget, callsLeft, fredIssued>>
        /\ UNCHANGED <<searchVars, fanVars, laterVars>>

NextOutage ==
    \/ ExtractEconomicData
    \/ FredDown
    \/ YahooDown
    \/ BatchSettled
    \/ DelayElapsed
    \/ TimerTick

----------------------------------------------------------------------------
(* Properties of the page operations *)

\* the call ended and its extract* function returned
Extracted == op \in PageOperations /\ pc = "done"

\* at least one field read from a page is in what the extraction returned
SomeFieldExtracted ==
    IF op \in LoopOperations THEN entries > blankEntries
    ELSE KeysOf(extracted) # {}

\* C13: a page extraction returns null when no page of it arrived or
\* decoded, and returns a snapshot only if at least one field was extracted
C13_ExtractionNullOrFields ==
    Extracted =>
        /\ ~pageArrived => snapshot.kind = "null"
        /\ snapshot.kind = "object" => SomeFieldExtracted

\* the operations whose row is built from a sparse snapshot
SparseOperations ==
    {"fetchYahooProfile", "fetchYahooSummary", "fetchYahooEstimates",
     "fetchYahooPricing", "fetchYahooFinancials", "fetchStockTechnicals"}

\* the primitive a field read from the page stands for
PrimitiveOf(v) ==
    IF v.type # "wrapper" THEN v
    ELSE IF v.raw # UndefinedValue THEN v.raw
    ELSE IF v.hasFmt THEN getValueFmt(v.fmt)
    ELSE NullValue

IsNull(v) == v.type = "null"

\* the call was not rejected although the page gave few fields
SparseAccepted ==
    KeysOf(extracted) # {} => retval.kind = "rows"

\* the row holds the fields read from the page
RowHoldsExtracted ==
    \A f \in KeysOf(extracted) :
        retval.kind = "rows" /\ row[f] # Absent =>
            \/ row[f] = PrimitiveOf(extracted[f])
            \/ IsNull(row[f]) /\ IsNull(PrimitiveOf(extracted[f]))

\* the row holds null for the fields the page did not give
RowNullElsewhere ==
    \A f \in Fields \ KeysOf(extracted) :
        retval.kind = "rows" /\ row[f] # Absent => IsNull(row[f])

\* C14: when at least one field was read from the page the call returns a
\* row with the fields read and null for the others; it is rejected only
\* when nothing was read
C14_SparseNeverRejected ==
    Extracted /\ op \in SparseOperations =>
        /\ SparseAccepted
        /\ RowHoldsExtracted
        /\ RowNullElsewhere

\* C15: when the extract* call of a fetch* operation returned null, the
\* fetch* call throws; it returns neither a row nor a list
C15_TotalFailureRaised ==
    Extracted /\ snapshot.kind = "null" => retval.kind = "throw"

\* the operations whose rows carry numeric value fields
ValueOperations ==
    {"fetchYahooSummary", "fetchYahooEstimates", "fetchYahooPricing",
     "fetchYahooFinancials"}

\* a primitive or null
Unwrapped(v) == v.type \in {"number", "string", "null"}

\* C16: every value field of a returned row is a primitive or null, and
\* null where the value is unavailable
C16_RowsUnwrapped ==
    /\ Extracted /\ op \in ValueOperations /\ retval.kind = "rows" =>
          \A f \in Fields :
              row[f] # Absent =>
                  /\ Unwrapped(row[f])
                  /\ extracted[f] = Absent => IsNull(row[f])
    /\ op = "economic" /\ pc = "done" =>
          \A k \in Keys :
              rows[k] # NoRow => rows[k].value.type \in {"number", "null"}
----------------------------------------------------------------------------
(* fetchStockPeers by symbol: the peer list of extractPeerData, the peer   *)
(* loop of fetchPeerMetrics and the rows of toPeerComparisonRows           *)

\* const peerMappings
peerMappings ==
    [AAPL |-> <<"MSFT", "GOOGL", "AMZN", "META">>,
     MSFT |-> <<"AAPL", "GOOGL", "AMZN", "META">>,
     GOOGL |-> <<"AAPL", "MSFT", "AMZN", "META">>,
     META |-> <<"AAPL", "MSFT", "GOOGL", "AMZN">>,
     TSLA |-> <<"NIO", "RIVN", "F", "GM">>,
     F |-> <<"GM", "TSLA", "RIVN", "NIO">>,
     GM |-> <<"F", "TSLA", "RIVN", "NIO">>,
     NVDA |-> <<"AMD", "INTC", "QCOM", "AVGO">>,
     AMD |-> <<"NVDA", "INTC", "QCOM", "AVGO">>,
     INTC |-> <<"NVDA", "AMD", "QCOM", "AVGO">>,
     JPM |-> <<"BAC", "WFC", "C", "GS">>,
     BAC |-> <<"JPM", "WFC", "C", "GS">>,
     JNJ |-> <<"PFE", "MRK", "ABBV", "UNH">>,
     PFE |-> <<"JNJ", "MRK", "ABBV", "UNH">>,
     WMT |-> <<"TGT", "COST", "HD", "LOW">>,
     AMZN |-> <<"WMT", "TGT", "COST", "EBAY">>]

\* peerMappings[symbol.toUpperCase()] || []
MappedPeers(sym) ==
    IF sym \in DOMAIN peerMappings THEN peerMappings[sym] ELSE <<>>

\* the industry of a page, by the keywords its lower-cased text includes
Keywords ==
    {"auto", "tech", "software", "bank", "financial", "health", "pharma"}

\* the default list chosen by the chain of includes() tests
DefaultPeers(sym, words) ==
    IF "auto" \in words THEN <<"F", "GM", "HMC", "TM">>
    ELSE IF "tech" \in words \/ "software" \in words
    THEN <<"AAPL", "MSFT", "GOOGL", "META">>
    ELSE IF "bank" \in words \/ "financial" \in words
    THEN <<"JPM", "BAC", "WFC", "C">>
    ELSE IF "health" \in words \/ "pharma" \in words
    THEN <<"JNJ", "PFE", "MRK", "UNH">>
    ELSE <<"AAPL", "MSFT", "AMZN", "GOOGL">>

\* peers.slice(0, 4)
peerSlice == 4
Slice(list, n) == SubSeq(list, 1, Min(Len(list), n))

\* the `peers` field extractPeerData returns
PeersOf(sym, words) ==
    Slice(IF Len(MappedPeers(sym)) = 0 THEN DefaultPeers(sym, words)
          ELSE MappedPeers(sym), peerSlice)

\* the symbols tried and what the target's page says of its industry: a
\* failed request, no industry fragment, or an industry text
TargetSymbols == {"AAPL", "AMZN", "F", "WFC", "TM", "CRM", "UNH", "XOM"}
IndustryTexts == {{}, {"auto"}, {"software"}, {"bank"}, {"health"}}
TargetPages ==
    {[kind |-> "error", words |-> {}], [kind |-> "noIndustry", words |-> {}]}
    \cup {[kind |-> "page", words |-> w] : w \in IndustryTexts}

TargetRow(sym) == [symbol |-> sym, company_type |-> "target"]
PeerRow(sym) == [symbol |-> sym, company_type |-> "peer"]

\* toPeerComparisonRows: the target row, then a row for every entry of
\* peerMetrics that is not null
RECURSIVE PeerRowsOf(_)
PeerRowsOf(data) ==
    IF data = <<>> THEN <<>>
    ELSE (IF Head(data).metrics THEN <<PeerRow(Head(data).symbol)>> ELSE <<>>)
         \o PeerRowsOf(Tail(data))
toPeerComparisonRows(sym, data) == <<TargetRow(sym)>> \o PeerRowsOf(data)

PeersFrame ==
    UNCHANGED <<now, timerDue, i, status, results, rows, batches, delays,
                fredOutcome, yahooOutcome, fredCount, yahooCount, issuedAt,
                settledAt, slack, misses, budget, fredIssued, searchVars,
                fanVars, callVars, pureVars, pageVars, summaryVars,
                metricVars>>

\* fetchStockPeers({symbol}) up to the request of the target's page
FetchStockPeers ==
    \E sym \in TargetSymbols :
        /\ pc = "idle"
        /\ callsLeft > 0
        /\ callsLeft' = callsLeft - 1
        /\ op' = "peers"
        /\ pc' = "target"
        /\ target' = sym
        /\ retval' = NoReturn
        /\ UNCHANGED <<peerList, peerIndex, requested, peerData, peerRows>>
        /\ PeersFrame

\* the peer loop moves on: the next peer's page is requested, or the loop
\* is over and the rows are made
NextPeer ==
    IF peerIndex < Len(peerList)
    THEN /\ peerIndex' = peerIndex + 1
         /\ requested' = Append(requested, peerList[peerIndex + 1])
         /\ pc' = "peer"
         /\ UNCHANGED <<retval, peerRows>>
    ELSE /\ pc' = "done"
         /\ peerRows' = toPeerComparisonRows(target, peerData')
         /\ retval' = Return("rows", Len(peerRows'), "page")
         /\ UNCHANGED <<peerIndex, requested>>

\* the target's page arrived or its request failed: without an industry
\* extractPeerData returns null and fetchStockPeers throws
TargetPageResponse ==
    \E page \in TargetPages :
        /\ op = "peers"
        /\ pc = "target"
        /\ IF page.kind # "page"
           THEN /\ pc' = "done"
                /\ retval' = Return("throw", 0, "extract")
                /\ UNCHANGED <<peerList, peerIndex, requested, peerRows>>
           ELSE /\ peerList' = PeersOf(target, page.words)
                /\ peerIndex' = 1
                /\ requested' = <<peerList'[1]>>
                /\ pc' = "peer"
                /\ UNCHANGED <<retval, peerRows>>
        /\ UNCHANGED <<op, callsLeft, target, peerData>>
        /\ PeersFrame

\* the page of peers[peerIndex] arrived (its metrics are stored and the
\* loop sleeps 500 ms) or its request failed (null is stored)
PeerResponse ==
    \E ok \in BOOLEAN :
        /\ op = "peers"
        /\ pc = "peer"
        /\ peerData' = Append(peerData, [symbol |-> peerList[peerIndex],
                                         metrics |-> ok])
        /\ IF ok
           THEN /\ pc' = "sleep"
                /\ UNCHANGED <<retval, peerIndex, requested, peerRows>>
           ELSE NextPeer
        /\ UNCHANGED <<op, callsLeft, target, peerList>>
        /\ PeersFrame

\* the pause after a stored peer is over
PeerWake ==
    /\ op = "peers"
    /\ pc = "sleep"
    /\ peerData' = peerData
    /\ NextPeer
    /\ UNCHANGED <<op, callsLeft, target, peerList>>
    /\ PeersFrame

NextPeers ==
    \/ FetchStockPeers
    \/ TargetPageResponse
    \/ PeerResponse
    \/ PeerWake

----------------------------------------------------------------------------
(* Properties of fetchStockPeers *)

Positions(list) == DOMAIN list
PeerRowsReturned == {n \in Positions(peerRows) : peerRows[n].company_type = "peer"}

\* C30: the peer list of extractPeerData has at most 4 symbols and never
\* holds the target symbol, with a predefined mapping or with a default
\* list; fetchStockPeers returns one target row and at most 4 peer rows,
\* none for the target symbol, the peers having been requested one after
\* the other in list order and a failed peer left out.
C30_PeersExcludeTarget ==
    op = "peers" =>
        /\ Len(peerList) <= 4
        /\ \A n \in Positions(peerList) : peerList[n] # target
        /\ requested = SubSeq(peerList, 1, peerIndex)
        /\ (pc = "done" /\ retval.kind = "rows") =>
              /\ peerRows[1] = TargetRow(target)
              /\ PeerRowsReturned = Positions(peerRows) \ {1}
              /\ Cardinality(PeerRowsReturned) <= 4
              /\ \A n \in PeerRowsReturned : peerRows[n].symbol # target
              /\ Tail(peerRows) = PeerRowsOf(peerData)
              /\ Len(peerData) = Len(peerList)

----------------------------------------------------------------------------
(* FRED observations: from the observation list of a response to the row  *)
(* values of fetchFredSeriesData, fetchFredVintageData and                 *)
(* fetchEconomicIndicators                                                 *)

\* the value of an observation as FRED sends it
ObsValues == {Placeholder, NULL} \cup NumericStrings

RECURSIVE ListsOfLen(_, _)
ListsOfLen(S, n) ==
    IF n = 0 THEN {<<>>}
    ELSE {Append(l, x) : l \in ListsOfLen(S, n - 1), x \in S}
ListsUpTo(S, n) == UNION {ListsOfLen(S, m) : m \in 0..n}

\* the responses taken: observations[n] is the value of the n-th
\* observation, whose date is told by n
ObservationLists == ListsUpTo(ObsValues, MaxObs)

\* obs => obs.value !== '.' && obs.value !== null
KeepsNonNull(v) == v # NULL
IsValidObservation(v) == v # Placeholder /\ v # NULL

\* positions of the observations .filter(...) keeps
ValidPositions(obs) == {n \in DOMAIN obs : IsValidObservation(obs[n])}

\* .slice(0, count) of a filtered list, as positions of the original
FirstOf(positions, count) ==
    {n \in positions : Cardinality({m \in positions : m < n}) < count}

\* no row for an observation
NoObsRow == [made |-> FALSE, value |-> NullValue]
ObsRow(v) == [made |-> TRUE, value |-> parseFloat(v)]

\* rows made of the observations at the kept positions
RowsAt(obs, kept) ==
    [n \in DOMAIN obs |-> IF n \in kept THEN ObsRow(obs[n]) ELSE NoObsRow]

\* extractFredSeriesData and toFredSeriesRows
toFredSeriesRows(obs, lim) == RowsAt(obs, FirstOf(ValidPositions(obs), lim))

\* the worker of extractFredVintageData and toFredVintageRows
vintageObservations == 3
toFredVintageRows(obs) ==
    RowsAt(obs, FirstOf(ValidPositions(obs), vintageObservations))

\* extractEconomicData and toEconomicRows: the one observation .find gives
EconomicObsRows(obs) == RowsAt(obs, FirstOf(ValidPositions(obs), 1))

ObservationOperations ==
    {"fetchFredSeriesData", "fetchFredVintageData", "fetchEconomicIndicators"}
Limits == 1..MaxObs

\* the state a conversion leaves alone
ObsFrame ==
    UNCHANGED <<now, timerDue, i, status, results, rows, batches, delays,
                fredOutcome, yahooOutcome, fredCount, yahooCount, issuedAt,
                settledAt, slack, misses, budget, fredIssued, searchVars,
                fanVars, retval, callsLeft, callVars, pageVars, restVars, text, decoded,
                vintages, analysis>>

\* the response of one operation is filtered and turned into row values
ConvertObservations ==
    \E o \in ObservationOperations, lim \in Limits :
        /\ pc = "idle"
        /\ o # "fetchFredSeriesData" => lim = 1
        /\ op' = o
        /\ pc' = "done"
        /\ obsRows' =
             CASE o = "fetchFredSeriesData" -> toFredSeriesRows(observations, lim)
               [] o = "fetchFredVintageData" -> toFredVintageRows(observations)
               [] o = "fetchEconomicIndicators" -> EconomicObsRows(observations)
        /\ UNCHANGED observations
        /\ ObsFrame

NextObservations == ConvertObservations

----------------------------------------------------------------------------
(* Properties of the FRED observations *)

Converted == op \in ObservationOperations /\ pc = "done"

\* a placeholder observation has a row whose value is null
PlaceholderRowIsNull ==
    \A n \in DOMAIN observations :
        observations[n] = Placeholder =>
            obsRows[n].made /\ IsNull(obsRows[n].value)

\* no row value is NaN
NoParseFailure ==
    \A n \in DOMAIN observations :
        obsRows[n].made => obsRows[n].value.type = "number"

----------------------------------------------------------------------------
(* analyzeRevisions: the revision between the two most recent vintages *)

\* observation values after parseFloat, and observation dates
RevisionValues == {0, 100, 103}
DateLists == {<<>>, <<1>>, <<2, 1>>}

\* the observations of one vintage: latest first, no date twice
ObservationSeries ==
    UNION {{[n \in DOMAIN ds |-> [date |-> ds[n], value |-> vs[n]]] :
               vs \in ListsOfLen(RevisionValues, Len(ds))} : ds \in DateLists}

\* the vintage list made of the observations of each vintage, in
\* descending order of vintage date
VintageList(series) ==
    [k \in DOMAIN series |->
        [vintageDate |-> Len(series) - k + 1, observations |-> series[k]]]
VintageLists(most) ==
    {VintageList(series) : series \in ListsUpTo(ObservationSeries, most)}

\* a finite quotient, or what IEEE division by zero gives
Ratio(num, den) == [type |-> "number", num |-> num, den |-> den]
NotANumber == [type |-> "NaN", num |-> 0, den |-> 0]
Infinity(sign) == [type |-> "Infinity", num |-> sign, den |-> 0]

\* (revision / previousValue) * 100
Percent(revision, previousValue) ==
    IF previousValue # 0 THEN Ratio(revision * 100, previousValue)
    ELSE IF revision = 0 THEN NotANumber
    ELSE IF revision > 0 THEN Infinity(1) ELSE Infinity(-1)

\* latestData.value - matchingPrevious.value
ReviseBackwards(latestValue, previousValue) == previousValue - latestValue
Revise(latestValue, previousValue) == latestValue - previousValue

\* previousVintage.observations.find(obs => obs.date === date): the
\* position of the first match, 0 when find gives undefined
FindFirst(obs, date) == IF obs = <<>> THEN 0 ELSE 1
FindDate(obs, date) ==
    IF \E n \in DOMAIN obs : obs[n].date = date
    THEN LowestOf({n \in DOMAIN obs : obs[n].date = date})
    ELSE 0

\* the entry pushed on `revisions`
RevisionOf(latestVintage, previousVintage, matching) ==
    LET latestData == latestVintage.observations[1]
        matchingPrevious == previousVintage.observations[matching]
        revision == Revise(latestData.value, matchingPrevious.value)
    IN  [date |-> latestData.date,
         latestValue |-> latestData.value,
         previousValue |-> matchingPrevious.value,
         revision |-> revision,
         revisionPercent |-> Percent(revision, matchingPrevious.value),
         vintageComparison |->
             <<previousVintage.vintageDate, latestVintage.vintageDate>>]

\* the `revisions` array
RevisionsOf(latestVintage, previousVintage) ==
    IF Len(latestVintage.observations) > 0
       /\ Len(previousVintage.observations) > 0
       /\ FindDate(previousVintage.observations,
                   latestVintage.observations[1].date) # 0
    THEN <<RevisionOf(latestVintage, previousVintage,
                      FindDate(previousVintage.observations,
                               latestVintage.observations[1].date))>>
    ELSE <<>>

analyzeRevisions(vintageData) ==
    IF Len(vintageData) < 2
    THEN [hasRevisions |-> FALSE, revisions |-> <<>>,
          analysis |-> "Insufficient data for revision analysis"]
    ELSE LET revisions == RevisionsOf(vintageData[1], vintageData[2])
         IN  [hasRevisions |-> Len(revisions) > 0,
              revisions |-> revisions,
              analysis |-> IF Len(revisions) > 0 THEN "Latest revision"
                           ELSE "No revisions detected in recent data"]

NotAnalyzed == [hasRevisions |-> FALSE, revisions |-> <<>>, analysis |-> ""]

\* analyzeRevisions is applied to the vintage list
AnalyzeRevisions ==
    /\ pc = "idle"
    /\ op' = "analyzeRevisions"
    /\ pc' = "done"
    /\ analysis' = analyzeRevisions(vintages)
    /\ UNCHANGED <<now, timerDue, i, status, results, rows, batches, delays,
                   fredOutcome, yahooOutcome, fredCount, yahooCount, issuedAt,
                   settledAt, slack, misses, budget, fredIssued, searchVars,
                   fanVars, retval, callsLeft, callVars, pageVars, restVars, text,
                   decoded, observations, obsRows, vintages>>

NextRevisions == AnalyzeRevisions

----------------------------------------------------------------------------
(* Properties of analyzeRevisions *)

Analyzed == op = "analyzeRevisions" /\ pc = "done"

\* the cases in which no revision can be computed
FewerThanTwo == Len(vintages) < 2
NoObservations ==
    /\ Len(vintages) >= 2
    /\ vintages[1].observations = <<>> \/ vintages[2].observations = <<>>
NoMatchingDate ==
    /\ Len(vintages) >= 2
    /\ vintages[1].observations # <<>>
    /\ vintages[2].observations # <<>>
    /\ \A n \in DOMAIN vintages[2].observations :
           vintages[2].observations[n].date
               # vintages[1].observations[1].date

ExplanatoryTexts ==
    {"Insufficient data for revision analysis",
     "No revisions detected in recent data"}

\* C18: hasRevisions is false, with an explanatory text, exactly when there
\* are fewer than 2 vintages, one of the two most recent has no
\* observations, or the previous one has no observation of the latest
\* date; otherwise there is exactly one revision, of the two most recent
C18_RevisionCases ==
    Analyzed =>
        IF FewerThanTwo \/ NoObservations \/ NoMatchingDate
        THEN /\ ~analysis.hasRevisions
             /\ analysis.revisions = <<>>
             /\ analysis.analysis \in ExplanatoryTexts
        ELSE /\ analysis.hasRevisions
             /\ Len(analysis.revisions) = 1
             /\ analysis.revisions[1].vintageComparison =
                    <<vintages[2].vintageDate, vintages[1].vintageDate>>

\* three vintages whose two most recent share no observation date were
\* analysed
C18_Witness ==
    /\ Analyzed
    /\ Len(vintages) = MaxVintages
    /\ NoMatchingDate
    /\ ~analysis.hasRevisions

\* the observation of the previous vintage dated like the latest
\* observation of the latest vintage
PreviousAt(date) ==
    CHOOSE obs \in {vintages[2].observations[n] :
                        n \in DOMAIN vintages[2].observations} :
        obs.date = date

\* p is delta / previous * 100
IsPercentOf(p, delta, previous) ==
    IF previous = 0 THEN p.type # "number"
    ELSE p.type = "number" /\ p.num * previous = delta * 100 * p.den

\* C19: the revision is for the latest vintage's most recent date D and the
\* previous vintage's observation of D, delta is latest - previous,
\* percent is delta / previous * 100, the pair reads previous -> latest;
\* 100 and 103 give delta 3 and percent 3
C19_RevisionValues ==
    Analyzed /\ analysis.hasRevisions =>
        LET r == analysis.revisions[1]
            latestData == vintages[1].observations[1]
            previous == PreviousAt(latestData.date)
        IN  /\ r.date = latestData.date
            /\ r.latestValue = latestData.value
            /\ r.previousValue = previous.value
            /\ r.revision = latestData.value - previous.value
            /\ IsPercentOf(r.revisionPercent, r.revision, previous.value)
            /\ r.vintageComparison =
                   <<vintages[2].vintageDate, vintages[1].vintageDate>>
            /\ previous.value = 100 /\ latestData.value = 103 =>
                   /\ r.revision = 3
                   /\ r.revisionPercent.num = 3 * r.revisionPercent.den

\* a revision from 100 to 103 was computed, the matching observation not
\* being the first of the previous vintage
C19_Witness ==
    /\ Analyzed
    /\ analysis.hasRevisions
    /\ analysis.revisions[1].previousValue = 100
    /\ analysis.revisions[1].latestValue = 103
    /\ vintages[2].observations[1].date # analysis.revisions[1].date

\* C27: every revision analyzeRevisions produces has a finite
\* revisionPercent, also when the previous vintage's value for the date
\* is 0.
C27_PercentFinite ==
    Analyzed =>
        \A n \in DOMAIN analysis.revisions :
            analysis.revisions[n].revisionPercent.type = "number"

----------------------------------------------------------------------------
(* stock_correlation: validateAndProcessInput, the tool handler and        *)
(* fetchStockCorrelation / extractStockCorrelationData                     *)

\* a string is the sequence of its characters
Chars == {"a", "b", ",", " "}
RECURSIVE StringsOfLen(_)
StringsOfLen(n) ==
    IF n = 0 THEN {<<>>}
    ELSE {Append(t, c) : t \in StringsOfLen(n - 1), c \in Chars}
SymbolStrings == UNION {StringsOfLen(n) : n \in 0..MaxChars}

\* String.prototype.split(','): the segments between the commas
split(str) ==
    LET F[n \in 0..Len(str)] ==
            IF n = 0 THEN << <<>> >>
            ELSE IF str[n] = ","
                 THEN Append(F[n - 1], <<>>)
                 ELSE [F[n - 1] EXCEPT ![Len(F[n - 1])] = Append(@, str[n])]
    IN  F[Len(str)]

\* String.prototype.trim() on a sequence of characters
trimEntry(str) ==
    LET solid == {j \in 1..Len(str) : str[j] # " "}
    IN  IF solid = {} THEN <<>>
        ELSE SubSeq(str, LowestOf(solid), HighestOf(solid))

toUpperCase(str) ==
    [j \in 1..Len(str) |->
        IF str[j] = "a" THEN "A" ELSE IF str[j] = "b" THEN "B" ELSE str[j]]

\* Array.prototype.filter(s => s): the non-empty entries, in order
RECURSIVE filterTruthy(_)
filterTruthy(list) ==
    IF list = <<>> THEN <<>>
    ELSE IF Head(list) = <<>> THEN filterTruthy(Tail(list))
    ELSE <<Head(list)>> \o filterTruthy(Tail(list))

\* Array.prototype.join(',')
RECURSIVE join(_)
join(list) ==
    IF list = <<>> THEN <<>>
    ELSE IF Len(list) = 1 THEN Head(list)
    ELSE Head(list) \o <<",">> \o join(Tail(list))

\* symbol.split(',').map(s => s.trim()).filter(s => s)
ValidatedSymbols(symbol) ==
    filterTruthy([j \in 1..Len(split(symbol)) |-> trimEntry(split(symbol)[j])])

\* validateAndProcessInput throws: the symbol is missing, or it holds
\* fewer than 2 entries
ValidationRejects(symbol) ==
    symbol = <<>> \/ Len(ValidatedSymbols(symbol)) < 2

\* the symbol validateAndProcessInput returns
processedSymbol(symbol) == join(ValidatedSymbols(symbol))

\* the handler's symbol.split(',').map(s => s.trim().toUpperCase())
HandlerSymbols(symbol) ==
    IF symbol = <<>> THEN <<>>
    ELSE [j \in 1..Len(split(symbol)) |->
            toUpperCase(trimEntry(split(symbol)[j]))]

\* arrays a caller may hand to fetchStockCorrelation directly
SymbolNames == {<<>>, <<"A">>, <<"B">>}
SymbolArrays == UNION {[1..n -> SymbolNames] : n \in 0..MaxSymbols}

\* a length check that lets a single symbol through
FetchAcceptsOne(syms) == Len(syms) < 1

\* fetchStockCorrelation: symbols.length < 2
FetchTooFew(syms) == Len(syms) < 2

\* extractStockCorrelationData: symbols.length < 2, thrown into its own
\* catch, which returns null
ExtractTooFew(syms) == Len(syms) < 2

\* what the economic, search and fan-out state looks like to a call that
\* does not touch it
OthersUnchanged ==
    UNCHANGED <<now, timerDue, i, status, results, rows, batches, delays,
                fredOutcome, yahooOutcome, fredCount, yahooCount, issuedAt,
                settledAt, slack, misses, budget, fredIssued, searchVars,
                fanVars, pureVars, pageVars, restVars>>

\* toCorrelationRows: one row per ordered pair of distinct valid symbols
CorrelationRowCount(valid) == Cardinality(valid) * (Cardinality(valid) - 1)

\* fetchStockCorrelation({symbols}) up to its first await
EnterFetchStockCorrelation(syms) ==
    /\ fetched' = TRUE
    /\ symbols' = syms
    /\ priceData' = {}
    /\ IF FetchTooFew(syms)
       THEN /\ pc' = "done"
            /\ retval' = Return("throw", 0, "precondition")
            /\ UNCHANGED <<httpCount, cursor>>
       ELSE IF ExtractTooFew(syms)
       THEN /\ pc' = "done"
            /\ retval' = Return("throw", 0, "extract")
            /\ UNCHANGED <<httpCount, cursor>>
       ELSE /\ pc' = "quote"
            /\ retval' = NoReturn
            /\ cursor' = 1
            /\ httpCount' = httpCount + 1

\* the CallTool handler for method stock_correlation
HandleStockCorrelation ==
    \E symbol \in SymbolStrings :
        /\ pc = "idle"
        /\ callsLeft > 0
        /\ callsLeft' = callsLeft - 1
        /\ op' = "correlation"
        /\ input' = [via |-> "handler", arg |-> symbol]
        /\ IF ValidationRejects(symbol)
           THEN /\ pc' = "done"
                /\ retval' = Return("throw", 0, "validation")
                /\ UNCHANGED <<httpCount, fetched, symbols, cursor, priceData>>
           ELSE EnterFetchStockCorrelation(
                    HandlerSymbols(processedSymbol(symbol)))
        /\ OthersUnchanged

\* a direct call of fetchStockCorrelation
FetchStockCorrelation ==
    \E syms \in SymbolArrays :
        /\ pc = "idle"
        /\ callsLeft > 0
        /\ callsLeft' = callsLeft - 1
        /\ op' = "correlation"
        /\ input' = [via |-> "direct", arg |-> syms]
        /\ EnterFetchStockCorrelation(syms)
        /\ OthersUnchanged

\* the loop moves on: the next symbol's page is requested, or the loop is
\* over and the matrix of the symbols with data is returned (an empty
\* matrix gives null, and fetchStockCorrelation throws)
NextSymbol ==
    IF cursor < Len(symbols)
    THEN /\ cursor' = cursor + 1
         /\ httpCount' = httpCount + 1
         /\ pc' = "quote"
         /\ UNCHANGED retval
    ELSE /\ pc' = "done"
         /\ retval' = IF priceData' # {}
                      THEN Return("rows", CorrelationRowCount(priceData'),
                                  "yahoo")
                      ELSE Return("throw", 0, "extract")
         /\ UNCHANGED <<cursor, httpCount>>

\* the quote page of symbols[cursor] arrived, or its request failed (the
\* loop's catch swallows the failure)
QuoteResponse ==
    \E ok \in BOOLEAN :
        /\ op = "correlation"
        /\ pc = "quote"
        /\ IF ok
           THEN /\ priceData' = priceData \cup {symbols[cursor]}
                /\ pc' = "sleep"
                /\ UNCHANGED <<retval, cursor, httpCount>>
           ELSE /\ priceData' = priceData
                /\ NextSymbol
        /\ UNCHANGED <<op, callsLeft, input, fetched, symbols>>
        /\ OthersUnchanged

\* the 300 ms pause after a stored quote is over
QuoteWake ==
    /\ op = "correlation"
    /\ pc = "sleep"
    /\ priceData' = priceData
    /\ NextSymbol
    /\ UNCHANGED <<op, callsLeft, input, fetched, symbols>>
    /\ OthersUnchanged

----------------------------------------------------------------------------
(* Properties of stock_correlation *)

\* the number of comma-separated entries of str that are not blank: the
\* positions holding the first non-blank character of their segment
NonEmptyEntries(str) ==
    Cardinality({j \in 1..Len(str) :
        /\ str[j] \notin {",", " "}
        /\ \A m \in 1..(j - 1) :
              (\A q \in m..(j - 1) : str[q] # ",") => str[m] = " "})

\* C11: fetchStockCorrelation entered with fewer than 2 symbols ends with
\* the precondition error and no network request; a handler call whose
\* symbol string has fewer than 2 non-blank comma-separated entries is
\* rejected without entering fetchStockCorrelation and without a request.
C11_CorrelationPrecondition ==
    /\ (op = "correlation" /\ fetched /\ Len(symbols) < 2) =>
          /\ pc = "done"
          /\ retval = Return("throw", 0, "precondition")
          /\ httpCount = 0
    /\ (op = "correlation" /\ input.via = "handler"
          /\ NonEmptyEntries(input.arg) < 2) =>
          /\ ~fetched
          /\ pc = "done"
          /\ retval = Return("throw", 0, "validation")
          /\ httpCount = 0

\* fetchStockCorrelation was called with exactly one symbol and has ended
C11_Witness ==
    /\ op = "correlation"
    /\ input.via = "direct"
    /\ fetched
    /\ Len(symbols) = 1
    /\ pc = "done"

\* the ordered pairs of distinct symbols that have data
OrderedPairs(valid) == {p \in valid \X valid : p[1] # p[2]}

\* C28: fetchStockCorrelation returns a result only if at least 2 distinct
\* symbols were fetched: when duplicates or failed requests leave fewer
\* than 2 valid symbols the call fails, and a call that succeeds with n
\* valid symbols returns n * (n - 1) rows, one per ordered pair of
\* distinct symbols.
C28_TwoValidSymbols ==
    (op = "correlation" /\ pc = "done" /\ fetched) =>
        /\ Cardinality(priceData) < 2 => retval.kind = "throw"
        /\ retval.kind = "rows" =>
               retval.n = Cardinality(OrderedPairs(priceData))

----------------------------------------------------------------------------
(* The FRED operations that need a credential: what fetchFred* and         *)
(* extractFred* do before their first request                              *)

\* the operations; checksSeriesId: fetchFred* starts with
\* `if (!seriesId.trim()) throw`; takesSeriesId: the operation has a
\* seriesId argument
fredOperations ==
    { [name |-> "fetchFredSeriesData", takesSeriesId |-> TRUE,
       checksSeriesId |-> TRUE],
      [name |-> "fetchFredCategories", takesSeriesId |-> FALSE,
       checksSeriesId |-> FALSE],
      [name |-> "fetchFredReleases", takesSeriesId |-> FALSE,
       checksSeriesId |-> FALSE],
      [name |-> "fetchFredVintageData", takesSeriesId |-> TRUE,
       checksSeriesId |-> TRUE],
      [name |-> "fetchFredTags", takesSeriesId |-> FALSE,
       checksSeriesId |-> FALSE],
      [name |-> "fetchFredRegionalData", takesSeriesId |-> FALSE,
       checksSeriesId |-> FALSE],
      [name |-> "fetchFredSources", takesSeriesId |-> FALSE,
       checksSeriesId |-> FALSE],
      [name |-> "fetchFredSeriesUpdates", takesSeriesId |-> FALSE,
       checksSeriesId |-> FALSE],
      [name |-> "fetchFredSeriesRelationships", takesSeriesId |-> TRUE,
       checksSeriesId |-> FALSE],
      [name |-> "fetchFredMapsData", takesSeriesId |-> FALSE,
       checksSeriesId |-> FALSE] }

FredOperationNames == {o.name : o \in fredOperations}

\* series ids a caller may pass ('' is also the default)
SeriesIds == {"", "  ", "GDP"}
NoSeriesId == "none"
SeriesIdArgs(o) == IF o.takesSeriesId THEN SeriesIds ELSE {NoSeriesId}

\* fetchFred*({seriesId}) with FRED_API_KEY = key, up to its first await:
\* the series id check of fetchFred*, then the credential check that opens
\* extractFred*, then the operation's first request
FetchFredOperation ==
    \E o \in fredOperations, key \in ApiKeys :
        \E seriesId \in SeriesIdArgs(o) :
            /\ pc \in {"idle", "done"}
            /\ callsLeft > 0
            /\ callsLeft' = callsLeft - 1
            /\ op' = o.name
            /\ apiKey' = key
            /\ input' = [via |-> "direct", arg |-> seriesId]
            /\ fetched' = TRUE
            /\ IF o.checksSeriesId /\ trim(seriesId) = ""
               THEN /\ pc' = "done"
                    /\ retval' = Return("throw", 0, "precondition")
                    /\ httpCount' = 0
               ELSE IF KeyRejected(key)
               THEN /\ pc' = "done"
                    /\ retval' = Return("throw", 0, "credential")
                    /\ httpCount' = 0
               ELSE /\ pc' = "request"
                    /\ retval' = NoReturn
                    /\ httpCount' = 1
            /\ UNCHANGED <<symbols, cursor, priceData>>
            /\ UNCHANGED <<now, timerDue, i, status, results, rows, batches,
                           delays, fredOutcome, yahooOutcome, fredCount,
                           yahooCount, issuedAt, settledAt, slack, misses,
                           budget, fredIssued, searchVars, limit, items,
                           wstatus, wresult, wdate, pureVars, pageVars,
                           restVars>>

\* the first request of the operation ended: a throw ends the call, a body
\* lets it go on with `more` further requests before it returns
FredOperationResponse ==
    \E ok \in BOOLEAN, more \in 0..MaxItems :
        /\ op \in FredOperationNames
        /\ pc = "request"
        /\ pc' = "done"
        /\ IF ok
           THEN /\ retval' = Return("rows", 0, "fred")
                /\ httpCount' = httpCount + more
           ELSE /\ retval' = Return("throw", 0, "transport")
                /\ httpCount' = httpCount
        /\ UNCHANGED <<op, callsLeft, input, fetched, symbols, cursor,
                       priceData>>
        /\ OthersUnchanged

----------------------------------------------------------------------------
(* Properties of the FRED preconditions *)

\* C12: a FRED operation called while FRED_API_KEY is unset or 'demo', and
\* fetchFredSeriesData / fetchFredVintageData called with a blank series
\* id, has ended with an error and has issued no request.
C12_PreconditionBeforeIO ==
    (/\ op \in FredOperationNames
     /\ \/ apiKey \in {"unset", "demo"}
        \/ /\ op \in {"fetchFredSeriesData", "fetchFredVintageData"}
           /\ input.arg \in {"", "  "}) =>
        /\ pc = "done"
        /\ retval.kind = "throw"
        /\ retval.endpoint \in {"precondition", "credential"}
        /\ httpCount = 0

\* the second of two calls, made with the demo key, has ended
C12_Witness ==
    /\ op \in FredOperationNames
    /\ apiKey = "demo"
    /\ callsLeft = 0
    /\ pc = "done"

----------------------------------------------------------------------------

\* the state before any call: b indicators may get no value from FRED,
\* c top-level calls may be made, s clock ticks may be spent
\* awaiting responses
InitWith(b, c, s) ==
    /\ op = "idle"
    /\ pc = "idle"
    /\ now = 0
    /\ timerDue = 0
    /\ i = 0
    /\ status = Fresh("idle")
    /\ results = Fresh(NoValue)
    /\ retval = NoReturn
    /\ batches = <<>>
    /\ delays = 0
    /\ fredOutcome = Fresh("none")
    /\ yahooOutcome = Fresh("none")
    /\ rows = Fresh(NoRow)
    /\ fredCount = Fresh(0)
    /\ yahooCount = Fresh(0)
    /\ issuedAt = 0
    /\ settledAt = 0
    /\ slack = s
    /\ misses = 0
    /\ budget = b
    /\ callsLeft = c
    /\ fredIssued = 0
    /\ sPrimary = "none"
    /\ sFallback = "none"
    /\ apiKey = "valid"
    /\ limit = 0
    /\ items = 0
    /\ wstatus = [j \in Workers |-> "idle"]
    /\ wresult = [j \in Workers |-> "none"]
    /\ wdate = [j \in Workers |-> 0]
    /\ input = [via |-> "none", arg |-> <<>>]
    /\ httpCount = 0
    /\ fetched = FALSE
    /\ symbols = <<>>
    /\ cursor = 0
    /\ priceData = {}

\* no observation list is being converted
SeriesIdle ==
    /\ observations = <<>>
    /\ obsRows = <<>>

\* no vintage list is being analysed
VintagesIdle ==
    /\ vintages = <<>>
    /\ analysis = NotAnalyzed

\* no string is being decoded
PureIdle ==
    /\ text = <<>>
    /\ decoded = NotDecoded
    /\ SeriesIdle
    /\ VintagesIdle

\* no page has been fetched
PagesIdle ==
    /\ extracted = NoFields
    /\ snapshot = NullSnapshot
    /\ row = NoFields
    /\ pagesLeft = 0
    /\ entries = 0
    /\ blankEntries = 0
    /\ pageArrived = FALSE

\* no summary field is being extracted
SummaryIdle ==
    /\ field = "none"
    /\ element = NoElement
    /\ fragment = NoFragment
    /\ summaryField = Absent
    /\ rowField = Absent

\* no metric is being converted
MetricsIdle ==
    /\ converter = "none"
    /\ metric = "none"
    /\ rawText = <<>>
    /\ metricValue = Absent
    /\ metricRow = Absent

\* fetchStockPeers has not been called
PeersIdle ==
    /\ target = ""
    /\ peerList = <<>>
    /\ peerIndex = 0
    /\ requested = <<>>
    /\ peerData = <<>>
    /\ peerRows = <<>>

RestIdle == SummaryIdle /\ MetricsIdle /\ PeersIdle

Init == InitWith(MaxMisses, 1, 0) /\ PureIdle /\ PagesIdle /\ RestIdle

Next ==
    \/ ExtractEconomicData
    \/ FredResponse
    \/ YahooResponse
    \/ BatchSettled
    \/ DelayElapsed
    \/ TimerTick
    \/ FetchFredSeriesSearch
    \/ SitesearchResponse
    \/ StandardSearchResponse
    \/ ExtractFredCategories
    \/ ExtractFredVintageData
    \/ ExtractFredMapsData
    \/ CategoriesListResponse
    \/ VintageListResponse
    \/ MapsListResponse
    \/ CategoryWorkerResponse
    \/ VintageWorkerResponse
    \/ MapsWorkerResponse
    \/ WorkerWake
    \/ WorkersDone

Spec == Init /\ [][Next]_vars

\* one call of extractEconomicData, with response latencies
InitTimed == InitWith(1, 1, MaxLatency) /\ PureIdle /\ PagesIdle /\ RestIdle

NextTimed ==
    \/ ExtractEconomicData
    \/ FredResponse
    \/ YahooResponse
    \/ BatchSettled
    \/ DelayElapsed
    \/ TimerTick
    \/ LatencyTick

SpecTimed == InitTimed /\ [][NextTimed]_vars

\* consecutive calls of fetchEconomicIndicators whose requests are all
\* answered at once with a valid observation
InitRate == InitWith(0, MaxCalls, 0) /\ PureIdle /\ PagesIdle /\ RestIdle

NextRate ==
    \/ ExtractEconomicData
    \/ FredResponse
    \/ BatchSettled
    \/ DelayElapsed
    \/ TimerTick

SpecRate == InitRate /\ [][NextRate]_vars

\* one stock_correlation request, through the tool handler or by a direct
\* call of fetchStockCorrelation
InitCorrelation == InitWith(0, 1, 0) /\ PureIdle /\ PagesIdle /\ RestIdle

NextCorrelation ==
    \/ HandleStockCorrelation
    \/ FetchStockCorrelation
    \/ QuoteResponse
    \/ QuoteWake

SpecCorrelation == InitCorrelation /\ [][NextCorrelation]_vars

\* two consecutive calls of FRED operations
InitFredCalls == InitWith(0, 2, 0) /\ PureIdle /\ PagesIdle /\ RestIdle

NextFredCalls ==
    \/ FetchFredOperation
    \/ FredOperationResponse

SpecFredCalls == InitFredCalls /\ [][NextFredCalls]_vars

\* the decoders applied to one formatted string
InitDecoders ==
    /\ InitWith(0, 0, 0)
    /\ text \in DecoderInputs
    /\ decoded = NotDecoded
    /\ SeriesIdle
    /\ VintagesIdle
    /\ PagesIdle /\ RestIdle

NextDecoders == DecodeText

SpecDecoders == InitDecoders /\ [][NextDecoders]_vars

\* one call of a page operation
InitPages == InitWith(0, 1, 0) /\ PureIdle /\ PagesIdle /\ RestIdle
SpecPages == InitPages /\ [][NextPages]_vars

\* one call of fetchEconomicIndicators during an outage of both sources
InitOutage == InitWith(NumIndicators, 1, 0) /\ PureIdle /\ PagesIdle /\ RestIdle
SpecOutage == InitOutage /\ [][NextOutage]_vars

\* one FRED response converted by one operation
InitObservations ==
    /\ InitWith(0, 0, 0)
    /\ text = <<>>
    /\ decoded = NotDecoded
    /\ observations \in ObservationLists
    /\ obsRows = <<>>
    /\ VintagesIdle
    /\ PagesIdle /\ RestIdle

SpecObservations == InitObservations /\ [][NextObservations]_vars

\* analyzeRevisions applied to one vintage list
InitRevisions ==
    /\ InitWith(0, 0, 0)
    /\ text = <<>>
    /\ decoded = NotDecoded
    /\ SeriesIdle
    /\ vintages \in VintageLists(MaxVintages)
    /\ analysis = NotAnalyzed
    /\ PagesIdle /\ RestIdle

SpecRevisions == InitRevisions /\ [][NextRevisions]_vars

\* one field of a quote page, and a string for the decoders
InitSummary ==
    /\ InitWith(0, 0, 0)
    /\ text \in SummaryStrings \ {<<>>}
    /\ decoded = NotDecoded
    /\ SeriesIdle
    /\ VintagesIdle
    /\ PagesIdle
    /\ field \in SummaryFieldNames
    /\ element \in Elements
    /\ fragment \in Fragments
    /\ summaryField = Absent
    /\ rowField = Absent
    /\ MetricsIdle
    /\ PeersIdle

SpecSummary == InitSummary /\ [][NextSummary]_vars

\* one metric of one page, for each of the four list converters
InitMetrics ==
    /\ InitWith(0, 0, 0)
    /\ PureIdle
    /\ PagesIdle
    /\ SummaryIdle
    /\ converter \in Converters
    /\ metric \in MetricsOf(converter)
    /\ rawText \in RawTexts
    /\ metricValue = Absent
    /\ metricRow = Absent
    /\ PeersIdle

SpecMetrics == InitMetrics /\ [][NextMetrics]_vars

\* one call of fetchStockPeers
InitPeers == InitWith(0, 1, 0) /\ PureIdle /\ PagesIdle /\ RestIdle

SpecPeers == InitPeers /\ [][NextPeers]_vars

========================================================================
